---- MODULE Spec2Model ----
(***************************************************************************)
(* HRMWARE tracker (core/tracker): the time-bar endpoint                   *)
(* (TrackerTimeBarView) and the productive break-down aggregator           *)
(* (TrackerProductiveBreakDownView), as state machines over the stored     *)
(* rows.                                                                   *)
(*                                                                         *)
(* Time is counted in whole units from midnight of the requested date; a   *)
(* day has Day units.  A datetime is an integer number of units (it may    *)
(* pass Day when start + duration crosses midnight); a formatted           *)
(* "%H:%M:%S" string is the time of day, a number in 0..Day-1.             *)
(***************************************************************************)
EXTENDS Integers, Sequences, FiniteSets, TLC

(* ------------------------------ bounds --------------------------------- *)
Day == 4
MaxDuration == 2
MaxSegments == 3
MaxGapLimit == 1
MaxTzOffset == 1
MaxLogs == 2
MaxLogDuration == 1
MaxWeekDays == 2
MaxWeekDayLogs == 1
FirstDate == 738886
DateSpan == 13
MaxWorkWeek == 8
MaxBatch == 2
MaxIngestTime == 1
MaxKnownApps == 1
MaxCategories == 2
MaxWorkers == 2
MaxFormatDays == 2
MaxWeeklyLogs == 2

VARIABLES
    TIME_GAP_LIMIT,     \* settings.TIME_GAP_LIMIT, in time units
    TIME_ZONE,          \* settings.TIME_ZONE, as its offset east of UTC
    time_segments,      \* TimeSegments rows of the user and date, order_by("start_time")
    time_bar_data,      \* get(): what the fetch_time_bar_* call returned
    time_bar_response,  \* get(): the Response, with the query parameters it answers
    activity_logs,      \* ActivityLogs rows of the user that start on the date, as the table lists them
    day_calculations,   \* the calculate_*_time_with_percentage results for the date
    week_logs,          \* per date of valid_week_days, the ActivityLogs rows that start on it
    week_calculations,  \* the get_week_calculations results for valid_week_days
    work_week_query,    \* date, week_start, number_of_days_in_work_week, work_days_to_ignore asked
    days_to_work_on,    \* what get_closest_start_date and get_days_to_work_on returned for them
    tracker_apps,       \* TrackerApps rows
    tracker_app_categories, \* TrackerAppCategories rows
    ingest_response,    \* post(): the Response, with the request body it answers
    repeat_response,    \* the Response to the same GET request made once more
    patch_response,     \* TrackerSetAppCategoryView.patch(): the Response, with the request it answers
    concurrent_posts,   \* TrackerAPIView.post() running in two workers: where each one is
    format_time_call,   \* format_time(): the seconds passed and, once it returned, the result
    productivity_tracker, \* TrackerProductivityStatusView.get(): the Response
    weekly_logs,        \* ActivityLogs of the weeks TrackerWeeklySummary walks, with their dates
    weekly_summary      \* TrackerWeeklySummary.get(): the Response, with the dates it visited

week_vars == <<week_logs, week_calculations>>
work_week_vars == <<work_week_query, days_to_work_on>>
ingest_vars == <<tracker_apps, tracker_app_categories, ingest_response>>

summary_vars == <<format_time_call, productivity_tracker, weekly_logs, weekly_summary>>

vars == <<TIME_GAP_LIMIT, TIME_ZONE, time_segments, time_bar_data, time_bar_response,
          activity_logs, day_calculations, week_vars, work_week_vars, ingest_vars,
          repeat_response, patch_response,
          concurrent_posts, summary_vars>>

Workers == 1 .. MaxWorkers

(* Optional values: None, or a one-element sequence holding the value. *)
None == <<>>
Some(v) == <<v>>
IsNone(o) == o = <<>>
Val(o) == o[1]

Max(a, b) == IF a >= b THEN a ELSE b
Min(a, b) == IF a <= b THEN a ELSE b

SegmentTypes == {"productive", "neutral"}

TimesOfDay == 0 .. (Day - 1)

(* ------------------------- models.TimeSegments ------------------------- *)
TimeSegmentRows ==
    [start_time : TimesOfDay, duration : 0 .. MaxDuration, segment_type : SegmentTypes]

get_actual_end_time(time_segment) ==
    time_segment.duration + time_segment.start_time

(* ----------------------- TrackerTimeBarView ---------------------------- *)
check_overlap_strict(first_interval, second_interval) ==
    Max(first_interval[1], second_interval[1]) < Min(first_interval[2], second_interval[2])

check_overlap_wide(first_interval, second_interval) ==
    Max(first_interval[1], second_interval[1]) <= Min(first_interval[2], second_interval[2]) + 1

check_overlap(first_interval, second_interval) ==
    LET max_start_time == Max(first_interval[1], second_interval[1])
        min_end_time == Min(first_interval[2], second_interval[2])
    IN  max_start_time <= min_end_time

(* A productivity_status_map is a dict: a sequence of <<key, count>> pairs  *)
(* in insertion order.                                                      *)
MapKeys(map) == {map[i][1] : i \in 1 .. Len(map)}

MapGet(map, key) ==
    LET i == CHOOSE j \in 1 .. Len(map) : map[j][1] = key IN map[i][2]

MapIncrement(map, key) ==
    IF key \in MapKeys(map)
    THEN [i \in 1 .. Len(map) |->
            IF map[i][1] = key THEN <<key, map[i][2] + 1>> ELSE map[i]]
    ELSE Append(map, <<key, 1>>)

(* No record of time_bar is found to overlap. *)
FirstOverlapNever(time_bar, time_segment) == 0

(* The index of the first record of time_bar that overlaps the segment, 0 if none. *)
FirstOverlap(time_bar, time_segment) ==
    LET hits == {i \in 1 .. Len(time_bar) :
                    check_overlap(<<time_bar[i].start_time, time_bar[i].end_time>>,
                                  <<time_segment.start_time, get_actual_end_time(time_segment)>>)}
    IN  IF hits = {} THEN 0 ELSE CHOOSE i \in hits : \A j \in hits : i <= j

(* The loop body without its `continue`: a merged segment also opens a record. *)
MergeSegmentAndAppend(time_bar, time_segment) ==
    LET i == FirstOverlap(time_bar, time_segment)
        own == [start_time |-> time_segment.start_time,
                end_time |-> get_actual_end_time(time_segment),
                productivity_status_map |-> <<<<time_segment.segment_type, 1>>>>]
    IN  IF i # 0
        THEN Append([time_bar EXCEPT ![i] =
                [start_time |-> Min(time_bar[i].start_time, time_segment.start_time),
                 end_time |-> Max(time_bar[i].end_time, get_actual_end_time(time_segment)),
                 productivity_status_map |->
                    MapIncrement(time_bar[i].productivity_status_map, time_segment.segment_type)]],
                own)
        ELSE Append(time_bar, own)

(* One pass of the outer loop: merge the segment into the first overlapping *)
(* record, or append a record of its own.                                   *)
MergeSegment(time_bar, time_segment) ==
    LET i == FirstOverlap(time_bar, time_segment) IN
    IF i # 0
    THEN [time_bar EXCEPT ![i] =
            [start_time |-> Min(time_bar[i].start_time, time_segment.start_time),
             end_time |-> Max(time_bar[i].end_time, get_actual_end_time(time_segment)),
             productivity_status_map |->
                MapIncrement(time_bar[i].productivity_status_map, time_segment.segment_type)]]
    ELSE Append(time_bar,
            [start_time |-> time_segment.start_time,
             end_time |-> get_actual_end_time(time_segment),
             productivity_status_map |-> <<<<time_segment.segment_type, 1>>>>])

RECURSIVE MergeFrom(_, _, _)
MergeFrom(time_bar, segments, n) ==
    IF n > Len(segments) THEN time_bar
    ELSE MergeFrom(MergeSegment(time_bar, segments[n]), segments, n + 1)

fetch_time_bar_considering_overlaps(segments) == MergeFrom(<<>>, segments, 1)

(* An aware datetime: the instant (units since midnight UTC of the date it  *)
(* was parsed on) and the zone it is shown in (offset east of UTC).         *)
UTC == 0

Datetime(instant, zone) == [utc |-> instant, tz |-> zone]

strftime(dt) == (dt.utc + dt.tz) % Day

astimezone(dt, zone) == [dt EXCEPT !.tz = zone]

(* strptime(time).replace(year, tzinfo=timezone).astimezone(to_timezone):   *)
(* time is a time of day read as wall-clock time of `timezone`.             *)
convert_timezones(time, timezone, to_timezone) ==
    astimezone(Datetime(time - timezone, timezone), to_timezone)

RecordFormat == "%H:%M:%S %p"
AwayFormat == "%H:%M:%S"

(* max(productivity_status_map, key=productivity_status_map.get): the first *)
(* key, in insertion order, whose count no other count exceeds.             *)
MaxKeyLast(map) ==
    LET i == CHOOSE j \in 1 .. Len(map) :
                /\ \A k \in 1 .. Len(map) : map[k][2] <= map[j][2]
                /\ \A k \in (j + 1) .. Len(map) : map[k][2] < map[j][2]
    IN  map[i][1]

MaxKey(map) ==
    LET i == CHOOSE j \in 1 .. Len(map) :
                /\ \A k \in 1 .. Len(map) : map[k][2] <= map[j][2]
                /\ \A k \in 1 .. (j - 1) : map[k][2] < map[j][2]
    IN  map[i][1]

(* get(), lines 465-474: one response segment per record. *)
TimeBarDataResponse(time_bar) ==
    [i \in 1 .. Len(time_bar) |->
        [start_time |-> strftime(Datetime(time_bar[i].start_time, UTC)),
         end_time |-> strftime(Datetime(time_bar[i].end_time, UTC)),
         productivity_status |-> MaxKey(time_bar[i].productivity_status_map),
         time_format |-> RecordFormat]]

(* The test both away branches apply to a gap. *)
IsAwayGapInclusive(start_timestamp, end_timestamp, limit) ==
    /\ start_timestamp.utc < end_timestamp.utc
    /\ end_timestamp.utc - start_timestamp.utc >= limit

IsAwayGap(start_timestamp, end_timestamp, limit) ==
    /\ start_timestamp.utc < end_timestamp.utc
    /\ ~ (end_timestamp.utc - start_timestamp.utc <= limit)

AwaySegment(start_timestamp, end_timestamp, zone) ==
    [start_time |-> strftime(astimezone(start_timestamp, zone)),
     end_time |-> strftime(astimezone(end_timestamp, zone)),
     productivity_status |-> "away",
     time_format |-> AwayFormat]

(* Converting a time_bar_record's times to local time, in place. *)
LocalRecord(time_bar_record, zone) ==
    [time_bar_record EXCEPT
        !.start_time = strftime(convert_timezones(time_bar_record.start_time, UTC, zone)),
        !.end_time = strftime(convert_timezones(time_bar_record.end_time, UTC, zone))]

(* In case there is only one time_bar_record: the away segment after it. *)
LastAwayNever(time_bar_record, time_end, limit, zone) == <<>>

LastAwayTimeSegment(time_bar_record, time_end, limit, zone) ==
    LET start_timestamp == convert_timezones(time_bar_record.end_time, UTC, UTC)
        end_timestamp == convert_timezones(time_end, UTC, UTC)
    IN  IF IsAwayGap(start_timestamp, end_timestamp, limit)
        THEN <<AwaySegment(start_timestamp, end_timestamp, zone)>>
        ELSE <<>>

(* One pass of the loop over time_bar_data_response (lines 491-598):        *)
(* records is the list as the earlier passes left it, final the             *)
(* final_time_bar_response so far.  The result is <<records, final>>.       *)
GapPass(records, final, index, time_start, time_end, limit, zone) ==
    LET n == Len(records)
        time_bar_record == records[index]
        start_timestamp ==
            IF index = 1
            THEN convert_timezones(time_start, UTC, UTC)
            ELSE convert_timezones(time_bar_record.end_time, UTC, UTC)
        end_timestamp ==
            IF index = 1
            THEN convert_timezones(time_bar_record.start_time, UTC, UTC)
            ELSE IF index = n
            THEN convert_timezones(time_end, UTC, UTC)
            ELSE convert_timezones(records[index + 1].start_time, UTC, UTC)
        away == IF IsAwayGap(start_timestamp, end_timestamp, limit)
                THEN <<AwaySegment(start_timestamp, end_timestamp, zone)>>
                ELSE <<>>
        last_away == IF n = 1
                     THEN LastAwayTimeSegment(time_bar_record, time_end, limit, zone)
                     ELSE <<>>
        converted == LocalRecord(time_bar_record, zone)
    IN  << [records EXCEPT ![index] = converted],
           final \o away \o <<converted>> \o last_away >>

RECURSIVE GapLoop(_, _, _, _, _, _, _)
GapLoop(records, final, index, time_start, time_end, limit, zone) ==
    IF index > Len(records) THEN final
    ELSE LET pass == GapPass(records, final, index, time_start, time_end, limit, zone)
         IN  GapLoop(pass[1], pass[2], index + 1, time_start, time_end, limit, zone)

(* list.sort(key=lambda x: x.get("start_time")): a stable sort on the       *)
(* start_time strings; "HH:MM:SS" sorts before "HH:MM:SS %p" of the same    *)
(* time of day.                                                             *)
SortKeyLessEq(a, b) ==
    \/ a.start_time < b.start_time
    \/ /\ a.start_time = b.start_time
       /\ (a.time_format = AwayFormat \/ b.time_format = RecordFormat)

RECURSIVE SortedInsert(_, _)
SortedInsert(sorted, x) ==
    IF sorted = <<>> THEN <<x>>
    ELSE IF SortKeyLessEq(sorted[Len(sorted)], x) THEN Append(sorted, x)
    ELSE Append(SortedInsert(SubSeq(sorted, 1, Len(sorted) - 1), x), sorted[Len(sorted)])

RECURSIVE SortFrom(_, _, _)
SortFrom(sorted, list, n) ==
    IF n > Len(list) THEN sorted
    ELSE SortFrom(SortedInsert(sorted, list[n]), list, n + 1)

SortByStartTime(list) == SortFrom(<<>>, list, 1)

(* GetTimeSegmentsSerializer.validate on time_start and time_end. *)
GetTimeSegmentsSerializerIsValid(time_start, time_end) ==
    /\ IsNone(time_start) <=> IsNone(time_end)
    /\ (~ IsNone(time_start) /\ ~ IsNone(time_end)) => ~ (Val(time_start) > Val(time_end))

(* get(), lines 483-601: the away segments, for a window given in local time. *)
FinalTimeBarResponse(time_bar_data_response, time_start, time_end, limit, zone) ==
    LET utc_start == strftime(convert_timezones(time_start, zone, UTC))
        utc_end == strftime(convert_timezones(time_end, zone, UTC))
    IN  SortByStartTime(
            GapLoop(time_bar_data_response, <<>>, 1, utc_start, utc_end, limit, zone))

TimeBarQuery(time_start, time_end, fine_grained) ==
    [time_start |-> time_start, time_end |-> time_end, fine_grained |-> fine_grained]

(* TrackerTimeBarView.get: <<what fetch_time_bar_* returned, the Response>>. *)
TimeBarGet(segments, time_start, time_end, fine_grained, limit, zone) ==
    LET query == TimeBarQuery(time_start, time_end, fine_grained) IN
    IF ~ GetTimeSegmentsSerializerIsValid(time_start, time_end)
    THEN << <<>>, [status |-> 400, query |-> query, time_bar_data |-> <<>>] >>
    ELSE IF fine_grained
    THEN \* fetch_time_bar_without_overlaps raises NotImplementedError
         << <<>>, [status |-> 500, query |-> query, time_bar_data |-> <<>>] >>
    ELSE LET time_bar == fetch_time_bar_considering_overlaps(segments)
             time_bar_data_response == TimeBarDataResponse(time_bar)
         IN  << time_bar,
                [status |-> 200, query |-> query,
                 time_bar_data |->
                    IF ~ IsNone(time_start) /\ ~ IsNone(time_end)
                    THEN FinalTimeBarResponse(time_bar_data_response,
                            Val(time_start), Val(time_end), limit, zone)
                    ELSE time_bar_data_response] >>

(* ------------------- TrackerProductiveBreakDownView --------------------- *)
ProductivityStatuses == {"productive", "non-productive", "neutral"}

(* models.ActivityLogs rows; end_timestamp is start_timestamp or later. *)
ActivityLogRows ==
    {[start_timestamp |-> s, end_timestamp |-> s + lasted, duration |-> d,
      productivity_status |-> status] :
        s \in TimesOfDay, lasted \in 0 .. MaxLogDuration,
        d \in 0 .. MaxLogDuration, status \in ProductivityStatuses}

(* What a call gives: a value, or the exception it raises. *)
Ok(v) == [kind |-> "ok", value |-> v]
Raise(exc) == [kind |-> "raise", exc |-> exc]
IsRaise(r) == r.kind = "raise"

(* datetime.time(): the time of day of a datetime. *)
TimeOf(datetime) == datetime % Day

(* activity_log.get_actual_end_time(): the ActivityLogs model defines no     *)
(* such method (only TimeSegments does), so the call raises.                 *)
ActivityLogs_get_actual_end_time(activity_log) == Raise("AttributeError")

(* order_by("start_timestamp").first() / .last(); rows of equal             *)
(* start_timestamp are taken in table order.                                *)
FirstEntry(logs) ==
    CHOOSE i \in 1 .. Len(logs) :
        \A j \in 1 .. Len(logs) :
            \/ logs[i].start_timestamp < logs[j].start_timestamp
            \/ (logs[i].start_timestamp = logs[j].start_timestamp /\ i <= j)

LastEntry(logs) ==
    CHOOSE i \in 1 .. Len(logs) :
        \A j \in 1 .. Len(logs) :
            \/ logs[i].start_timestamp > logs[j].start_timestamp
            \/ (logs[i].start_timestamp = logs[j].start_timestamp /\ i >= j)

get_default_start_time(logs) ==
    IF logs = <<>> THEN Raise("NoActivityLogFound")
    ELSE Ok(TimeOf(logs[FirstEntry(logs)].start_timestamp))

get_default_end_time(logs) ==
    IF logs = <<>> THEN Raise("NoActivityLogFound")
    ELSE Ok(TimeOf(logs[LastEntry(logs)].end_timestamp))

get_total_working_time(start_time, end_time) == end_time - start_time

(* round(n / d) for n >= 0 and d > 0, a tie going to the even neighbour. *)
RoundHalfEven(n, d) ==
    LET q == n \div d
        r == n % d
    IN  IF 2 * r < d THEN q
        ELSE IF 2 * r > d THEN q + 1
        ELSE IF q % 2 = 0 THEN q ELSE q + 1

(* round((time / total_defined_work_duration) * 100, 2), in hundredths of a *)
(* percent (10000 is 100%), in exact arithmetic.                            *)
Percentage(time, total_defined_work_duration) ==
    IF total_defined_work_duration = 0 THEN Raise("ZeroDivisionError")
    ELSE LET n == IF total_defined_work_duration < 0 THEN 0 - time * 10000 ELSE time * 10000
             d == IF total_defined_work_duration < 0
                  THEN 0 - total_defined_work_duration ELSE total_defined_work_duration
         IN  Ok(IF n < 0 THEN 0 - RoundHalfEven(0 - n, d) ELSE RoundHalfEven(n, d))

(* A returned dict {"<key>_time": time, "<key>_time_percentage": percentage}. *)
Calculation(time, percentage) ==
    [kind |-> "ok", time |-> time, percentage |-> percentage]

(* The start_time/end_time defaults every calculate_* begins with:           *)
(* Ok(<<start_time, end_time>>), or the NoActivityLogFound raised.           *)
WindowOrDefault(logs, start_time, end_time) ==
    LET s == IF IsNone(start_time) THEN get_default_start_time(logs) ELSE Ok(Val(start_time))
        e == IF IsNone(end_time) THEN get_default_end_time(logs) ELSE Ok(Val(end_time))
    IN  IF IsRaise(s) THEN s ELSE IF IsRaise(e) THEN e ELSE Ok(<<s.value, e.value>>)

calculate_working_time_with_percentage(logs, start_time, end_time) ==
    LET window == WindowOrDefault(logs, start_time, end_time)
        work_start_time == get_default_start_time(logs)
        work_end_time == get_default_end_time(logs)
    IN  IF IsRaise(window) \/ IsRaise(work_start_time) \/ IsRaise(work_end_time)
        THEN Calculation(None, None)
        ELSE LET total_working_time == work_end_time.value - work_start_time.value
                 percentage == Percentage(total_working_time,
                                get_total_working_time(window.value[1], window.value[2]))
             IN  IF IsRaise(percentage) THEN percentage
                 ELSE Calculation(Some(total_working_time), Some(percentage.value))

(* The loop of the productive, non-productive and neutral calculations: the *)
(* logs whose status is in `statuses` add get_actual_end_time() -           *)
(* start_timestamp to the total.                                            *)
RECURSIVE TotalTimeFrom(_, _, _, _)
TotalTimeFrom(logs, statuses, n, total) ==
    IF n > Len(logs) THEN Ok(total)
    ELSE IF logs[n].productivity_status \in statuses
    THEN LET actual_end_time == ActivityLogs_get_actual_end_time(logs[n])
         IN  IF IsRaise(actual_end_time) THEN actual_end_time
             ELSE TotalTimeFrom(logs, statuses, n + 1,
                    total + (actual_end_time.value - logs[n].start_timestamp))
    ELSE TotalTimeFrom(logs, statuses, n + 1, total)

StatusTimeWithPercentage(logs, statuses, start_time, end_time) ==
    LET window == WindowOrDefault(logs, start_time, end_time) IN
    IF IsRaise(window) THEN Calculation(None, None)
    ELSE LET total == TotalTimeFrom(logs, statuses, 1, 0) IN
         IF IsRaise(total) THEN total
         ELSE LET percentage == Percentage(total.value,
                                    get_total_working_time(window.value[1], window.value[2]))
              IN  IF IsRaise(percentage) THEN percentage
                  ELSE Calculation(Some(total.value), Some(percentage.value))

calculate_productive_time_with_percentage(logs, start_time, end_time) ==
    StatusTimeWithPercentage(logs, {"productive"}, start_time, end_time)

calculate_non_productive_time_with_percentage(logs, start_time, end_time) ==
    StatusTimeWithPercentage(logs, ProductivityStatuses \ {"productive", "neutral"},
                             start_time, end_time)

calculate_neutral_time_with_percentage(logs, start_time, end_time) ==
    StatusTimeWithPercentage(logs, {"neutral"}, start_time, end_time)

(* The away loop's test of one gap: what it adds to total_away_time. *)
AwayGap(start_timestamp, end_timestamp, limit) ==
    IF start_timestamp < end_timestamp /\ end_timestamp - start_timestamp >= limit
    THEN end_timestamp - start_timestamp
    ELSE 0

(* The loop over enumerate(activity_logs), lines 1376-1399. *)
RECURSIVE TotalAwayFrom(_, _, _, _, _, _)
TotalAwayFrom(logs, index, total, start_time, end_time, limit) ==
    IF index > Len(logs) THEN Ok(total)
    ELSE IF index = 1
    THEN TotalAwayFrom(logs, index + 1,
            total + AwayGap(start_time, logs[index].start_timestamp, limit),
            start_time, end_time, limit)
    ELSE LET start_timestamp == ActivityLogs_get_actual_end_time(logs[index])
             end_timestamp == IF index = Len(logs) THEN end_time
                              ELSE logs[index + 1].start_timestamp
         IN  IF IsRaise(start_timestamp) THEN start_timestamp
             ELSE TotalAwayFrom(logs, index + 1,
                    total + AwayGap(start_timestamp.value, end_timestamp, limit),
                    start_time, end_time, limit)

(* `if total_away_time == 0: total_away_time = get_total_working_time(...)` *)
ZeroAwayFallbackDropped(total_away_time, total_defined_work_duration) == total_away_time

ZeroAwayFallback(total_away_time, total_defined_work_duration) ==
    IF total_away_time = 0 THEN total_defined_work_duration ELSE total_away_time

calculate_away_time_with_percentage(logs, start_time, end_time, limit) ==
    LET window == WindowOrDefault(logs, start_time, end_time) IN
    IF IsRaise(window)
    THEN \* get_total_working_time(date, None, None): datetime.combine refuses None
         Raise("TypeError")
    ELSE LET measured == TotalAwayFrom(logs, 1, 0, window.value[1], window.value[2], limit)
             total_defined_work_duration ==
                 get_total_working_time(window.value[1], window.value[2])
         IN  IF IsRaise(measured) THEN measured
             ELSE LET total_away_time ==
                          ZeroAwayFallback(measured.value, total_defined_work_duration)
                      percentage == Percentage(total_away_time, total_defined_work_duration)
                  IN  IF IsRaise(percentage) THEN percentage
                      ELSE Calculation(Some(total_away_time), Some(percentage.value))

(* TrackerProductiveBreakDownSerializer.validate: both or neither of        *)
(* start_time and end_time, start_time > end_time refused.                  *)
BreakDownSerializerIsValid(start_time, end_time) ==
    /\ IsNone(start_time) <=> IsNone(end_time)
    /\ (~ IsNone(start_time) /\ ~ IsNone(end_time)) => ~ (Val(start_time) > Val(end_time))

(* ... and its conversion of a local time of day to UTC. *)
ToUtcTime(time, zone) ==
    IF IsNone(time) THEN None ELSE Some((Val(time) - zone) % Day)

(* The five calculations get_response makes for one date. *)
DayCalculations(logs, start_time, end_time, limit) ==
    [working |-> calculate_working_time_with_percentage(logs, start_time, end_time),
     productive |-> calculate_productive_time_with_percentage(logs, start_time, end_time),
     non_productive |-> calculate_non_productive_time_with_percentage(logs, start_time, end_time),
     neutral |-> calculate_neutral_time_with_percentage(logs, start_time, end_time),
     away |-> calculate_away_time_with_percentage(logs, start_time, end_time, limit)]

(* ------------------------------ actions --------------------------------- *)
Settings ==
    /\ TIME_GAP_LIMIT \in 0 .. MaxGapLimit
    /\ TIME_ZONE \in 0 .. MaxTzOffset

InitTables ==
    /\ Settings
    /\ time_segments = <<>>
    /\ time_bar_data = <<>>
    /\ time_bar_response = None
    /\ activity_logs = <<>>
    /\ day_calculations = None
    /\ week_logs = <<>>
    /\ week_calculations = None
    /\ work_week_query = None
    /\ days_to_work_on = None
    /\ tracker_apps = <<>>
    /\ tracker_app_categories = <<>>
    /\ ingest_response = None
    /\ repeat_response = None
    /\ patch_response = None
    /\ concurrent_posts = [worker \in Workers |-> [pc |-> "idle"]]
    /\ productivity_tracker = None
    /\ weekly_logs = <<>>
    /\ weekly_summary = None

Init ==
    /\ InitTables
    /\ format_time_call = None

(* A TimeSegments row of the user and date is stored (before the request    *)
(* that is followed); the queryset lists the rows by start_time, rows of    *)
(* equal start_time in any order.                                           *)
TimeSegmentsCreate ==
    /\ IsNone(time_bar_response)
    /\ Len(time_segments) < MaxSegments
    /\ \E row \in TimeSegmentRows, pos \in 0 .. Len(time_segments) :
        /\ pos > 0 => time_segments[pos].start_time <= row.start_time
        /\ pos < Len(time_segments) => row.start_time <= time_segments[pos + 1].start_time
        /\ time_segments' = SubSeq(time_segments, 1, pos) \o <<row>>
                            \o SubSeq(time_segments, pos + 1, Len(time_segments))
    /\ UNCHANGED <<TIME_GAP_LIMIT, TIME_ZONE, time_bar_data, time_bar_response,
                   activity_logs, day_calculations, week_vars,
                   work_week_vars, ingest_vars, repeat_response,
                   patch_response, concurrent_posts,
                   summary_vars>>

OptionalTimes == {None} \cup {Some(t) : t \in TimesOfDay}

(* The query strings tried: every time_start and time_end, given or not,    *)
(* and fine_grained=true without a window.                                  *)
TimeBarQueries ==
    {TimeBarQuery(s, e, FALSE) : s \in OptionalTimes, e \in OptionalTimes}
    \cup {TimeBarQuery(None, None, TRUE)}

(* get() storing a TimeSegments row for every away span it reports. *)
TimeSegmentsAfterGetAwayStored(segments, response) ==
    segments \o
    [i \in 1 .. Len(SelectSeq(response.time_bar_data,
                              LAMBDA e : e.productivity_status = "away")) |->
        LET away == SelectSeq(response.time_bar_data,
                              LAMBDA e : e.productivity_status = "away")[i]
        IN  [start_time |-> away.start_time,
             duration |-> away.end_time - away.start_time,
             segment_type |-> "away"]]

(* The TimeSegments rows after get(): it creates, saves and deletes none. *)
TimeSegmentsAfterGet(segments, response) == segments

(* GET /tracker/time-bar *)
TrackerTimeBarViewGet ==
    /\ IsNone(time_bar_response)
    /\ \E query \in TimeBarQueries :
        LET result == TimeBarGet(time_segments, query.time_start, query.time_end,
                                 query.fine_grained, TIME_GAP_LIMIT, TIME_ZONE)
        IN  /\ time_bar_data' = result[1]
            /\ time_bar_response' = Some(result[2])
            /\ time_segments' = TimeSegmentsAfterGet(time_segments, result[2])
    /\ UNCHANGED <<TIME_GAP_LIMIT, TIME_ZONE, activity_logs, day_calculations,
                   week_vars, work_week_vars, ingest_vars, repeat_response,
                   patch_response, concurrent_posts,
                   summary_vars>>

Next ==
    \/ TimeSegmentsCreate
    \/ TrackerTimeBarViewGet

Spec == Init /\ [][Next]_vars

(* An ActivityLogs row of the user, starting on the date, is stored. *)
ActivityLogsCreate ==
    /\ IsNone(day_calculations)
    /\ Len(activity_logs) < MaxLogs
    /\ \E row \in ActivityLogRows : activity_logs' = Append(activity_logs, row)
    /\ UNCHANGED <<TIME_GAP_LIMIT, TIME_ZONE, time_segments, time_bar_data,
                   time_bar_response, day_calculations, week_vars,
                   work_week_vars, ingest_vars, repeat_response,
                   patch_response, concurrent_posts,
                   summary_vars>>

(* GET of the productive break-down, as far as the date itself goes: the    *)
(* serializer's check and conversion of start_time and end_time, then the   *)
(* five calculations for the date.                                          *)
BreakDownDayGet(logs, start_time, end_time, limit, zone) ==
    IF ~ BreakDownSerializerIsValid(start_time, end_time)
    THEN [status |-> 400, start_time |-> start_time, end_time |-> end_time]
    ELSE [status |-> 0,
          start_time |-> ToUtcTime(start_time, zone),
          end_time |-> ToUtcTime(end_time, zone)]
         @@ DayCalculations(logs, ToUtcTime(start_time, zone), ToUtcTime(end_time, zone), limit)

ProductiveBreakDownDay ==
    /\ IsNone(day_calculations)
    /\ \E start_time \in OptionalTimes, end_time \in OptionalTimes :
        day_calculations' =
            Some(BreakDownDayGet(activity_logs, start_time, end_time,
                                 TIME_GAP_LIMIT, TIME_ZONE))
    /\ UNCHANGED <<TIME_GAP_LIMIT, TIME_ZONE, time_segments, time_bar_data,
                   time_bar_response, activity_logs, week_vars,
                   work_week_vars, ingest_vars, repeat_response,
                   patch_response, concurrent_posts,
                   summary_vars>>

NextBreakDown ==
    \/ ActivityLogsCreate
    \/ ProductiveBreakDownDay

SpecBreakDown == Init /\ [][NextBreakDown]_vars

(* ======================= time-bar: properties =========================== *)
Answered == ~ IsNone(time_bar_response)
Response == Val(time_bar_response)
Merged == Answered /\ Response.status = 200
Windowed == Merged /\ ~ IsNone(Response.query.time_start)

SegStart(j) == time_segments[j].start_time
SegEnd(j) == time_segments[j].start_time + time_segments[j].duration

(* The label map's count of a type, 0 when the type is no key of it. *)
CountOf(map, type) == IF type \in MapKeys(map) THEN MapGet(map, type) ELSE 0

(* C1: segments ordered by start time, each starting strictly after the    *)
(* previous one's start + duration, come out as one span each, in order,   *)
(* with the segment's own bounds and a label map of its type with count 1. *)
C1_Disjoint ==
    \A j \in 1 .. (Len(time_segments) - 1) : SegStart(j + 1) > SegEnd(j)

C1_DisjointSegmentsUnchanged ==
    (Merged /\ C1_Disjoint) =>
        time_bar_data =
            [j \in 1 .. Len(time_segments) |->
                [start_time |-> SegStart(j),
                 end_time |-> SegEnd(j),
                 productivity_status_map |-> <<<<time_segments[j].segment_type, 1>>>>]]

C1_Witness ==
    Merged /\ C1_Disjoint /\ Len(time_segments) = MaxSegments /\ Len(time_bar_data) = MaxSegments

(* C2: two segments with max(s1,s2) <= min(e1,e2), touching or nested       *)
(* included, come out as the single span (min(s1,s2), max(e1,e2)) whose     *)
(* label map counts both segments.                                          *)
C2_Pair ==
    /\ Len(time_segments) = 2
    /\ Max(SegStart(1), SegStart(2)) <= Min(SegEnd(1), SegEnd(2))

C2_OverlappingPairMerged ==
    (Merged /\ C2_Pair) =>
        /\ Len(time_bar_data) = 1
        /\ time_bar_data[1].start_time = Min(SegStart(1), SegStart(2))
        /\ time_bar_data[1].end_time = Max(SegEnd(1), SegEnd(2))
        /\ Len(time_bar_data[1].productivity_status_map)
             = Cardinality(MapKeys(time_bar_data[1].productivity_status_map))
        /\ \A type \in SegmentTypes :
             CountOf(time_bar_data[1].productivity_status_map, type)
               = Cardinality({j \in 1 .. 2 : time_segments[j].segment_type = type})

(* Two segments that only touch: the second starts where the first ends. *)
C2_Witness ==
    /\ Merged /\ C2_Pair
    /\ SegStart(2) = SegEnd(1) /\ SegStart(1) < SegStart(2) /\ SegEnd(1) < SegEnd(2)
    /\ Len(time_bar_data) = 1

(* C3: no two output spans satisfy max(startA,startB) <= min(endA,endB). *)
C3_SpansDisjoint ==
    Merged =>
        \A a \in 1 .. Len(time_bar_data), b \in 1 .. Len(time_bar_data) :
            a < b =>
                ~ (Max(time_bar_data[a].start_time, time_bar_data[b].start_time)
                     <= Min(time_bar_data[a].end_time, time_bar_data[b].end_time))

(* Several spans, one of them merged from more than one segment. *)
C3_Witness ==
    /\ Merged
    /\ Len(time_bar_data) = 2
    /\ Len(time_segments) = 3
    /\ Len(time_bar_data[1].productivity_status_map) = 2

(* C4: a span's label is the type that occurs most often among the segments *)
(* merged into it; among the types that tie for the highest count, the one  *)
(* merged into the span first.                                              *)
SegmentsIn(span) ==
    {j \in 1 .. Len(time_segments) :
        span.start_time <= SegStart(j) /\ SegEnd(j) <= span.end_time}

Occurrences(span, type) ==
    Cardinality({j \in SegmentsIn(span) : time_segments[j].segment_type = type})

EarlierIn(span, type, other) ==
    \E j \in SegmentsIn(span) :
        /\ time_segments[j].segment_type = type
        /\ \A k \in SegmentsIn(span) : time_segments[k].segment_type = other => j < k

IsWinner(span, label) ==
    /\ Occurrences(span, label) > 0
    /\ \A type \in SegmentTypes \ {label} :
        \/ Occurrences(span, type) < Occurrences(span, label)
        \/ /\ Occurrences(span, type) = Occurrences(span, label)
           /\ EarlierIn(span, label, type)

(* How the response shows a stored (UTC) datetime. *)
Shown(datetime) ==
    IF Windowed THEN (datetime + TIME_ZONE) % Day ELSE datetime % Day

RealEntries == {i \in 1 .. Len(Response.time_bar_data) :
                    Response.time_bar_data[i].productivity_status # "away"}
AwayEntries == {i \in 1 .. Len(Response.time_bar_data) :
                    Response.time_bar_data[i].productivity_status = "away"}

C4_MajorityLabelFirstSeenTie ==
    Merged =>
        /\ Cardinality(RealEntries) = Len(time_bar_data)
        /\ \A a \in 1 .. Len(time_bar_data) :
            \E i \in RealEntries :
                /\ Response.time_bar_data[i].start_time = Shown(time_bar_data[a].start_time)
                /\ Response.time_bar_data[i].end_time = Shown(time_bar_data[a].end_time)
                /\ IsWinner(time_bar_data[a], Response.time_bar_data[i].productivity_status)

(* The example: (0, 2, productive) and (1, 2, neutral) give one span (0, 3) *)
(* labelled productive.                                                     *)
C4_Witness ==
    /\ Merged /\ ~ Windowed
    /\ time_segments = << [start_time |-> 0, duration |-> 2, segment_type |-> "productive"],
                          [start_time |-> 1, duration |-> 2, segment_type |-> "neutral"] >>
    /\ Response.time_bar_data =
         << [start_time |-> 0, end_time |-> 3, productivity_status |-> "productive",
             time_format |-> RecordFormat] >>

(* The window and the spans as get() compares them: times of day in UTC. *)
WindowStart == (Val(Response.query.time_start) - TIME_ZONE) % Day
WindowEnd == (Val(Response.query.time_end) - TIME_ZONE) % Day
SpanStart(a) == time_bar_data[a].start_time % Day
SpanEnd(a) == time_bar_data[a].end_time % Day

(* The UTC times of day an away entry of the response stands for. *)
AwayStart(i) == (Response.time_bar_data[i].start_time - TIME_ZONE) % Day
AwayEnd(i) == (Response.time_bar_data[i].end_time - TIME_ZONE) % Day

HasAway(from, to) == \E i \in AwayEntries : AwayStart(i) = from /\ AwayEnd(i) = to

(* C5: every away span of the response ends strictly after it starts and is *)
(* strictly longer than TIME_GAP_LIMIT.                                     *)
C5_AwayLongerThanLimit ==
    Windowed =>
        \A i \in AwayEntries :
            /\ AwayStart(i) < AwayEnd(i)
            /\ AwayEnd(i) - AwayStart(i) > TIME_GAP_LIMIT
            /\ (Response.time_bar_data[i].end_time
                  - Response.time_bar_data[i].start_time) % Day > TIME_GAP_LIMIT

(* An away span is reported while the lead-in gap, of exactly               *)
(* TIME_GAP_LIMIT > 0, is not.                                              *)
C5_Witness ==
    /\ Windowed
    /\ TIME_GAP_LIMIT > 0
    /\ Len(time_bar_data) >= 1
    /\ SpanStart(1) - WindowStart = TIME_GAP_LIMIT
    /\ AwayEntries # {}
    /\ ~ HasAway(WindowStart, SpanStart(1))

(* C6: with two or more spans, the lead-in, the gap between every two       *)
(* consecutive spans (the first and the second included) and the trail-out  *)
(* each have an away span when strictly longer than TIME_GAP_LIMIT.         *)
C6_EveryGapReported ==
    (Windowed /\ Len(time_bar_data) >= 2) =>
        /\ SpanStart(1) - WindowStart > TIME_GAP_LIMIT
             => HasAway(WindowStart, SpanStart(1))
        /\ \A a \in 1 .. (Len(time_bar_data) - 1) :
             SpanStart(a + 1) - SpanEnd(a) > TIME_GAP_LIMIT
               => HasAway(SpanEnd(a), SpanStart(a + 1))
        /\ WindowEnd - SpanEnd(Len(time_bar_data)) > TIME_GAP_LIMIT
             => HasAway(SpanEnd(Len(time_bar_data)), WindowEnd)

(* C7: with exactly one span, the lead-in and the trail-out are tested      *)
(* each on its own: the response holds the span and one away span for each  *)
(* of the two gaps that is strictly longer than TIME_GAP_LIMIT.             *)
C7_LeadIn == SpanStart(1) - WindowStart > TIME_GAP_LIMIT
C7_TrailOut == WindowEnd - SpanEnd(1) > TIME_GAP_LIMIT

C7_SingleSpanBothGaps ==
    (Windowed /\ Len(time_bar_data) = 1) =>
        /\ C7_LeadIn <=> HasAway(WindowStart, SpanStart(1))
        /\ C7_TrailOut <=> HasAway(SpanEnd(1), WindowEnd)
        /\ Cardinality(RealEntries) = 1
        /\ Cardinality(AwayEntries)
             = (IF C7_LeadIn THEN 1 ELSE 0) + (IF C7_TrailOut THEN 1 ELSE 0)

C7_Witness ==
    /\ Windowed /\ Len(time_bar_data) = 1
    /\ C7_LeadIn /\ C7_TrailOut
    /\ Cardinality(AwayEntries) = 2

(* =================== productive break-down: properties ================== *)
Calculated == ~ IsNone(day_calculations) /\ Val(day_calculations).status # 400
Calc == Val(day_calculations)
WindowGiven == Calculated /\ ~ IsNone(Calc.start_time)

(* The durations of the logs of the given statuses, summed. *)
RECURSIVE SumDurations(_, _, _)
SumDurations(logs, statuses, n) ==
    IF n > Len(logs) THEN 0
    ELSE (IF logs[n].productivity_status \in statuses THEN logs[n].duration ELSE 0)
         + SumDurations(logs, statuses, n + 1)

(* C8: no ActivityLogs on the date and a window [start_time, end_time] (of  *)
(* positive length) requested: away_time is the window's length and         *)
(* away_time_percentage 100, and the working, productive, non-productive    *)
(* and neutral calculations each return None for value and percentage.      *)
C8_NoLogsAllNoneAwayFull ==
    (WindowGiven /\ activity_logs = <<>> /\ Val(Calc.start_time) < Val(Calc.end_time)) =>
        /\ Calc.away = Calculation(Some(Val(Calc.end_time) - Val(Calc.start_time)), Some(10000))
        /\ Calc.working = Calculation(None, None)
        /\ Calc.productive = Calculation(None, None)
        /\ Calc.non_productive = Calculation(None, None)
        /\ Calc.neutral = Calculation(None, None)

(* C9: with at least one ActivityLog on the date the three calculations     *)
(* succeed, and productive_time, neutral_time and non_productive_time are   *)
(* the summed durations of the logs that are productive, neutral, and       *)
(* neither of the two.                                                      *)
C9_BucketsSumDurations ==
    (Calculated /\ Len(activity_logs) >= 1
        /\ (WindowGiven => Val(Calc.start_time) < Val(Calc.end_time))) =>
        /\ Calc.productive.kind = "ok"
        /\ Calc.neutral.kind = "ok"
        /\ Calc.non_productive.kind = "ok"
        /\ Calc.productive.time = Some(SumDurations(activity_logs, {"productive"}, 1))
        /\ Calc.neutral.time = Some(SumDurations(activity_logs, {"neutral"}, 1))
        /\ Calc.non_productive.time
             = Some(SumDurations(activity_logs,
                        ProductivityStatuses \ {"productive", "neutral"}, 1))

(* C10: a gap counts toward away_time only when strictly longer than        *)
(* TIME_GAP_LIMIT: a returned away_time is the window's length (no gap      *)
(* counted) or a total of gaps each longer than TIME_GAP_LIMIT, hence       *)
(* itself longer than TIME_GAP_LIMIT.                                       *)
C10_AwayGapStrictlyAboveLimit ==
    (WindowGiven /\ Calc.away.kind = "ok") =>
        \/ Val(Calc.away.time) = Val(Calc.end_time) - Val(Calc.start_time)
        \/ Val(Calc.away.time) > TIME_GAP_LIMIT

(* The gaps of the date as the away rule describes them, for logs taken in  *)
(* start order: window start to the first log, each log's end to the next   *)
(* log's start, the last log's end to the window end.                       *)
LogsInStartOrder ==
    \A n \in 1 .. (Len(activity_logs) - 1) :
        activity_logs[n].start_timestamp <= activity_logs[n + 1].start_timestamp

LogEndsAgree ==
    \A n \in 1 .. Len(activity_logs) :
        activity_logs[n].end_timestamp
            = activity_logs[n].start_timestamp + activity_logs[n].duration

GapFrom(n) ==
    IF n = 0 THEN Val(Calc.start_time) ELSE activity_logs[n].end_timestamp
GapTo(n) ==
    IF n = Len(activity_logs) THEN Val(Calc.end_time)
    ELSE activity_logs[n + 1].start_timestamp
GapLength(n) == IF GapFrom(n) < GapTo(n) THEN GapTo(n) - GapFrom(n) ELSE 0

RECURSIVE GapsAboveLimit(_)
GapsAboveLimit(n) ==
    IF n > Len(activity_logs) THEN 0
    ELSE (IF GapLength(n) > TIME_GAP_LIMIT THEN GapLength(n) ELSE 0)
         + GapsAboveLimit(n + 1)

NoGapAtLimit ==
    \A n \in 0 .. Len(activity_logs) : GapLength(n) # TIME_GAP_LIMIT

(* C11: for n >= 1 logs in start order the measured away total is the       *)
(* lead-in gap, every gap between consecutive logs and the trail-out gap,   *)
(* each counted when above TIME_GAP_LIMIT (a total of zero being reported   *)
(* as the whole window); a single log has both its lead-in and trail-out    *)
(* counted.                                                                 *)
C11_AwayIsSumOfAllGaps ==
    (WindowGiven /\ Len(activity_logs) >= 1 /\ LogsInStartOrder /\ LogEndsAgree
        /\ NoGapAtLimit /\ Val(Calc.start_time) < Val(Calc.end_time)) =>
        /\ Calc.away.kind = "ok"
        /\ Calc.away.time =
             Some(IF GapsAboveLimit(0) = 0
                  THEN Val(Calc.end_time) - Val(Calc.start_time)
                  ELSE GapsAboveLimit(0))

(* The window the calculations of the date use (requested, or the first     *)
(* log's start and the last log's end), and the total the away loop         *)
(* measures over it.                                                        *)
UsedWindow == WindowOrDefault(activity_logs, Calc.start_time, Calc.end_time)
WindowLength == UsedWindow.value[2] - UsedWindow.value[1]
MeasuredAway ==
    TotalAwayFrom(activity_logs, 1, 0, UsedWindow.value[1], UsedWindow.value[2],
                  TIME_GAP_LIMIT)

(* C12: on a date with logs and a window of positive length, a measured     *)
(* away total of exactly zero is reported as the window's length with       *)
(* percentage 100, and no returned away_time is 0.                          *)
C12_ZeroAwayIsFullWindow ==
    (Calculated /\ Len(activity_logs) >= 1 /\ WindowLength > 0) =>
        /\ MeasuredAway = Ok(0)
             => Calc.away = Calculation(Some(WindowLength), Some(10000))
        /\ Calc.away.kind = "ok" => Calc.away.time # Some(0)

(* A log that starts where the requested window starts: nothing measured. *)
C12_Witness ==
    /\ WindowGiven /\ Len(activity_logs) = 1 /\ WindowLength > 0
    /\ activity_logs[1].start_timestamp = Val(Calc.start_time)
    /\ MeasuredAway = Ok(0)
    /\ Calc.away = Calculation(Some(WindowLength), Some(10000))

(* C13: with a requested window of zero length (start_time = end_time,      *)
(* which the serializer accepts) no calculation of the date divides by      *)
(* zero.                                                                    *)
C13_ZeroWindowGuarded ==
    (WindowGiven /\ Val(Calc.start_time) = Val(Calc.end_time)) =>
        \A calculation \in {Calc.working, Calc.productive, Calc.non_productive,
                            Calc.neutral, Calc.away} :
            calculation # Raise("ZeroDivisionError")

(* ================== productive break-down: the week ===================== *)
ResponseKeys == {"working", "productive", "non_productive", "neutral", "away"}

(* getattr(self, f"calculate_{response_key}_time_with_percentage")(...) *)
CalculateByKey(response_key, logs, start_time, end_time, limit) ==
    DayCalculations(logs, start_time, end_time, limit)[response_key]

(* get_total_working_time as get_week_calculations calls it, with the       *)
(* start_time and end_time of the request: datetime.combine refuses None.   *)
WeekDayWorkingTime(start_time, end_time) ==
    IF IsNone(start_time) \/ IsNone(end_time) THEN Raise("TypeError")
    ELSE Ok(get_total_working_time(Val(start_time), Val(end_time)))

(* The loop of get_week_calculations from the n-th date on, given the two   *)
(* running totals.                                                          *)
RECURSIVE WeekLoop(_, _, _, _, _, _, _, _)
WeekLoop(response_key, days, n, this_week_calculations, total_working_time, start_time, end_time, limit) ==
    IF n > Len(days) THEN Ok(<<this_week_calculations, total_working_time>>)
    ELSE LET function_result == CalculateByKey(response_key, days[n], start_time, end_time, limit)
             day_working_time == WeekDayWorkingTime(start_time, end_time)
         IN  IF IsRaise(function_result) THEN function_result
             ELSE IF IsRaise(day_working_time) THEN day_working_time
             ELSE WeekLoop(response_key, days, n + 1,
                    this_week_calculations
                      + (IF IsNone(function_result.time) THEN 0 ELSE Val(function_result.time)),
                    total_working_time + day_working_time.value,
                    start_time, end_time, limit)

get_week_calculations(response_key, days, start_time, end_time, limit) ==
    LET totals == WeekLoop(response_key, days, 1, 0, 0, start_time, end_time, limit) IN
    IF IsRaise(totals) THEN totals
    ELSE LET percentage == Percentage(totals.value[1], totals.value[2])
         IN  IF IsRaise(percentage) THEN percentage
             ELSE Calculation(Some(totals.value[1]), Some(percentage.value))

(* A date joins valid_week_days, so far without ActivityLogs. *)
WeekDayCreate ==
    /\ IsNone(week_calculations)
    /\ Len(week_logs) < MaxWeekDays
    /\ week_logs' = Append(week_logs, <<>>)
    /\ UNCHANGED <<TIME_GAP_LIMIT, TIME_ZONE, time_segments, time_bar_data,
                   time_bar_response, activity_logs, day_calculations, week_calculations,
                   work_week_vars, ingest_vars, repeat_response,
                   patch_response, concurrent_posts,
                   summary_vars>>

(* An ActivityLogs row that starts on the latest date of valid_week_days is *)
(* stored.                                                                  *)
WeekActivityLogsCreate ==
    /\ IsNone(week_calculations)
    /\ Len(week_logs) >= 1
    /\ Len(week_logs[Len(week_logs)]) < MaxWeekDayLogs
    /\ \E row \in ActivityLogRows :
        week_logs' = [week_logs EXCEPT ![Len(week_logs)] = Append(@, row)]
    /\ UNCHANGED <<TIME_GAP_LIMIT, TIME_ZONE, time_segments, time_bar_data,
                   time_bar_response, activity_logs, day_calculations, week_calculations,
                   work_week_vars, ingest_vars, repeat_response,
                   patch_response, concurrent_posts,
                   summary_vars>>

(* GET of the productive break-down, as far as "this_week" goes: the        *)
(* serializer's check and conversion of start_time and end_time, then       *)
(* get_week_calculations for each response key.                             *)
ProductiveBreakDownWeek ==
    /\ IsNone(week_calculations)
    /\ \E start_time \in OptionalTimes, end_time \in OptionalTimes :
        week_calculations' =
            IF ~ BreakDownSerializerIsValid(start_time, end_time)
            THEN Some([status |-> 400, start_time |-> start_time, end_time |-> end_time])
            ELSE Some([status |-> 0,
                       start_time |-> ToUtcTime(start_time, TIME_ZONE),
                       end_time |-> ToUtcTime(end_time, TIME_ZONE),
                       this_week |->
                         [response_key \in ResponseKeys |->
                            get_week_calculations(response_key, week_logs,
                                ToUtcTime(start_time, TIME_ZONE),
                                ToUtcTime(end_time, TIME_ZONE), TIME_GAP_LIMIT)]])
    /\ UNCHANGED <<TIME_GAP_LIMIT, TIME_ZONE, time_segments, time_bar_data,
                   time_bar_response, activity_logs, day_calculations, week_logs,
                   work_week_vars, ingest_vars, repeat_response,
                   patch_response, concurrent_posts,
                   summary_vars>>

NextWeek ==
    \/ WeekDayCreate
    \/ WeekActivityLogsCreate
    \/ ProductiveBreakDownWeek

SpecWeek == Init /\ [][NextWeek]_vars

WeekCalculated == ~ IsNone(week_calculations) /\ Val(week_calculations).status # 400
Week == Val(week_calculations)

(* What one date of valid_week_days contributes to a bucket of the week. *)
DayBucket(response_key, n) ==
    CalculateByKey(response_key, week_logs[n], Week.start_time, Week.end_time, TIME_GAP_LIMIT)

(* The window a date's calculations are made against. *)
DayWindow(n) == WindowOrDefault(week_logs[n], Week.start_time, Week.end_time)

RECURSIVE SumDayBuckets(_, _)
SumDayBuckets(response_key, n) ==
    IF n > Len(week_logs) THEN 0
    ELSE (IF IsRaise(DayBucket(response_key, n)) \/ IsNone(DayBucket(response_key, n).time)
          THEN 0 ELSE Val(DayBucket(response_key, n).time))
         + SumDayBuckets(response_key, n + 1)

RECURSIVE SumDayWindows(_)
SumDayWindows(n) ==
    IF n > Len(week_logs) THEN 0
    ELSE (IF IsRaise(DayWindow(n)) THEN 0 ELSE DayWindow(n).value[2] - DayWindow(n).value[1])
         + SumDayWindows(n + 1)

(* C14: for each bucket the week's value is the sum over the listed dates   *)
(* of the date's bucket seconds, a None counting as 0, and the week's       *)
(* percentage is that sum over the sum of the dates' window lengths, times  *)
(* 100.                                                                     *)
C14_WeekSumsThenDivides ==
    (WeekCalculated /\ Len(week_logs) >= 1 /\ SumDayWindows(1) > 0) =>
        \A response_key \in ResponseKeys :
            (\A n \in 1 .. Len(week_logs) : ~ IsRaise(DayBucket(response_key, n))) =>
                /\ Week.this_week[response_key].kind = "ok"
                /\ Week.this_week[response_key].time = Some(SumDayBuckets(response_key, 1))
                /\ Week.this_week[response_key].percentage
                     = Some(Percentage(SumDayBuckets(response_key, 1), SumDayWindows(1)).value)

(* ===================== work week: the dates to work on ================== *)
(* Dates are proleptic Gregorian ordinals (date.toordinal()).               *)
Dates == FirstDate .. (FirstDate + DateSpan)

(* date.weekday(): Monday is 0, Sunday is 6. *)
weekday(date) == (date + 6) % 7

weekdays == <<"monday", "tuesday", "wednesday", "thursday", "friday", "saturday", "sunday">>

(* weekdays.index(week_start) - the list is 0-indexed in the source. *)
WeekdayIndex(week_start) == (CHOOSE i \in 1 .. Len(weekdays) : weekdays[i] = week_start) - 1

(* The start date moved forward only: the next date of that weekday. *)
get_closest_start_date_forward(date, week_start_index) ==
    IF weekday(date) = week_start_index THEN date
    ELSE LET days_ahead0 == week_start_index - weekday(date)
             days_ahead == IF days_ahead0 <= 0 THEN days_ahead0 + 7 ELSE days_ahead0
         IN  date + days_ahead

get_closest_start_date(date, week_start_index) ==
    IF weekday(date) = week_start_index THEN date
    ELSE LET days_ahead0 == week_start_index - weekday(date)
             days_ahead == IF days_ahead0 <= 0 THEN days_ahead0 + 7 ELSE days_ahead0
             days_behind0 == weekday(date) - week_start_index
             days_behind == IF days_behind0 <= 0 THEN days_behind0 + 7 ELSE days_behind0
             closest_day == IF days_ahead < days_behind THEN days_ahead ELSE 0 - days_behind
         IN  date + closest_day

(* final_date_to_avoid, one day short. *)
FinalDateToAvoidShort(working_date, number_of_days_in_work_week) ==
    working_date + number_of_days_in_work_week - 1

FinalDateToAvoid(working_date, number_of_days_in_work_week) ==
    working_date + number_of_days_in_work_week

(* while working_date != final_date_to_avoid: ... *)
RECURSIVE DaysLoop(_, _, _, _)
DaysLoop(days_list, working_date, final_date_to_avoid, work_days_to_ignore_formatted) ==
    IF working_date = final_date_to_avoid THEN days_list
    ELSE DaysLoop(IF weekday(working_date) \notin work_days_to_ignore_formatted
                  THEN Append(days_list, working_date) ELSE days_list,
                  working_date + 1, final_date_to_avoid, work_days_to_ignore_formatted)

get_days_to_work_on(date, week_start, number_of_days_in_work_week, work_days_to_ignore) ==
    LET closest_date == get_closest_start_date(date, WeekdayIndex(week_start))
        work_days_to_ignore_formatted == {WeekdayIndex(w) : w \in work_days_to_ignore}
    IN  DaysLoop(<<>>, closest_date,
                 FinalDateToAvoid(closest_date, number_of_days_in_work_week),
                 work_days_to_ignore_formatted)

(* TrackerProductiveBreakDownSerializer.validate_number_of_days_in_work_week *)
validate_number_of_days_in_work_week(number_of_days_in_work_week) ==
    ~ (number_of_days_in_work_week <= 0 \/ number_of_days_in_work_week > 7)

WeekdayNames == {weekdays[i] : i \in 1 .. Len(weekdays)}

(* The work-week parameters of a break-down request: refused by the         *)
(* serializer, or resolved to the start date and the dates to work on.      *)
GetDaysToWorkOn ==
    /\ IsNone(work_week_query)
    /\ \E date \in Dates, week_start \in WeekdayNames,
          number_of_days_in_work_week \in 0 .. MaxWorkWeek,
          work_days_to_ignore \in SUBSET WeekdayNames :
        /\ work_week_query' =
             Some([date |-> date, week_start |-> week_start,
                   number_of_days_in_work_week |-> number_of_days_in_work_week,
                   work_days_to_ignore |-> work_days_to_ignore])
        /\ days_to_work_on' =
             IF ~ validate_number_of_days_in_work_week(number_of_days_in_work_week)
             THEN Some([status |-> 400])
             ELSE Some([status |-> 0,
                        closest_date |->
                          get_closest_start_date(date, WeekdayIndex(week_start)),
                        days_list |->
                          get_days_to_work_on(date, week_start,
                              number_of_days_in_work_week, work_days_to_ignore)])
    /\ UNCHANGED <<TIME_GAP_LIMIT, TIME_ZONE, time_segments, time_bar_data,
                   time_bar_response, activity_logs, day_calculations, week_vars,
                   ingest_vars, repeat_response,
                   patch_response, concurrent_posts,
                   summary_vars>>

NextWorkWeek == GetDaysToWorkOn

SpecWorkWeek == Init /\ [][NextWorkWeek]_vars

WorkWeekResolved == ~ IsNone(days_to_work_on) /\ Val(days_to_work_on).status = 0
Query == Val(work_week_query)
Resolved == Val(days_to_work_on)
Distance(a, b) == IF a < b THEN b - a ELSE a - b

(* C15: the start date falls on the weekday asked for and no date of that   *)
(* weekday is as near or nearer to the date: it is the date itself when the *)
(* date has that weekday, and otherwise at most 3 days before or after it.  *)
C15_ClosestStartDate ==
    WorkWeekResolved =>
        LET idx == WeekdayIndex(Query.week_start) IN
        /\ weekday(Resolved.closest_date) = idx
        /\ weekday(Query.date) = idx => Resolved.closest_date = Query.date
        /\ Distance(Query.date, Resolved.closest_date) <= 3
        /\ \A other \in (FirstDate - 7) .. (FirstDate + DateSpan + 7) :
             (weekday(other) = idx /\ other # Resolved.closest_date)
               => Distance(Query.date, other) > Distance(Query.date, Resolved.closest_date)

(* A start date 3 days back, where the next date of the weekday is 4 days   *)
(* ahead.                                                                   *)
C15_Witness ==
    /\ WorkWeekResolved
    /\ Resolved.closest_date = Query.date - 3

(* The N consecutive dates scanned, from the resolved start date. *)
Scanned == Resolved.closest_date
             .. (Resolved.closest_date + Query.number_of_days_in_work_week - 1)

(* C16: for N in 1..7 the walk returns, in ascending order and each once,   *)
(* exactly the dates among the N consecutive dates from the start date      *)
(* whose weekday is not ignored: between 0 and N dates.                     *)
C16_DaysToWorkOn ==
    WorkWeekResolved =>
        /\ Query.number_of_days_in_work_week \in 1 .. 7
        /\ {Resolved.days_list[i] : i \in 1 .. Len(Resolved.days_list)}
             = {d \in Scanned :
                  weekdays[weekday(d) + 1] \notin Query.work_days_to_ignore}
        /\ \A i \in 1 .. (Len(Resolved.days_list) - 1) :
             Resolved.days_list[i] < Resolved.days_list[i + 1]
        /\ Len(Resolved.days_list) <= Query.number_of_days_in_work_week

(* An ignored day in the middle of the scan takes its step and is not       *)
(* replaced.                                                                *)
C16_Witness ==
    /\ WorkWeekResolved
    /\ Query.number_of_days_in_work_week = 7
    /\ Query.work_days_to_ignore = {"saturday", "sunday"}
    /\ Len(Resolved.days_list) = 5

(* ============================ ingest: POST ============================== *)
(* settings.DEFAULT_TRACKER_CATEGORY *)
DEFAULT_TRACKER_CATEGORY == "default"

(* The "name" values tried, and str.strip().lower() of each. *)
RawNames == {"Code", "code ", "chrome"}

strip_lower(name) ==
    CASE name = "Code" -> "code"
      [] name = "code " -> "code"
      [] OTHER -> name

(* One element of allWindows, as the client sends it: lastUsed None is the  *)
(* blank string, session None an item without the key; the ids of a body   *)
(* are taken distinct.                                                      *)
WindowItems ==
    [id : 1 .. MaxBatch,
     session : {None, Some(<<>>)},
     firstUsed : 0 .. MaxIngestTime,
     lastUsed : {None, Some(0)},
     name : RawNames,
     totalUsage : {0 - 1, 1},
     isActive : BOOLEAN]

AllWindowsValues ==
    {all_windows \in UNION {[1 .. n -> WindowItems] : n \in 0 .. MaxBatch} :
        \A i \in 1 .. Len(all_windows) : all_windows[i].id = i}

(* idleStates: None is a body without the key; endTime None is blank. *)
IdleStatesValues ==
    {None, Some(<<>>),
     Some(<<[startTime |-> 0, endTime |-> None, duration |-> 1]>>),
     Some(<<[startTime |-> 0, endTime |-> Some(1), duration |-> 1]>>)}

RequestBodies == [allWindows : AllWindowsValues, idleStates : IdleStatesValues]

(* ActivityLogsDataItemsSerializer: the fields of one item that fail. *)
ItemErrors(item) ==
    IF IsNone(item.session) THEN {"session"}
    ELSE IF IsNone(item.lastUsed) /\ item.isActive # TRUE THEN {"non_field_errors"}
    ELSE {}

(* ActivityLogsDataSerializer: serializer.errors, by field. *)
SerializerErrors(data) ==
    (IF \E i \in 1 .. Len(data.allWindows) : ItemErrors(data.allWindows[i]) # {}
     THEN {<<"allWindows", [i \in 1 .. Len(data.allWindows) |-> ItemErrors(data.allWindows[i])]>>}
     ELSE {})
    \cup (IF IsNone(data.idleStates) THEN {<<"idleStates", "required">>} ELSE {})

(* ... and serializer.validated_data: a blank lastUsed becomes the time of  *)
(* the request.                                                             *)
ValidatedItem(item, now) ==
    [item EXCEPT !.lastUsed = IF IsNone(item.lastUsed) THEN Some(now) ELSE item.lastUsed,
                 !.session = IF IsNone(item.session) THEN <<>> ELSE Val(item.session)]

ValidatedData(data, now) ==
    [allWindows |-> [i \in 1 .. Len(data.allWindows) |-> ValidatedItem(data.allWindows[i], now)],
     idleStates |-> Val(data.idleStates)]

(* get_main_data: (serializer.errors, False) or (validated_data, True). *)
get_main_data(data, now) ==
    IF SerializerErrors(data) # {} THEN <<SerializerErrors(data), FALSE>>
    ELSE <<ValidatedData(data, now), TRUE>>

(* add_now_date_to_time of a well-formed "%I:%M:%S %p" string: the time on  *)
(* today's date; of the blank string, strptime raises.                      *)
add_now_date_to_time(time) ==
    IF IsNone(time) THEN Raise("ValueError") ELSE Ok(Val(time))

extract_data(data) ==
    [start_timestamp |-> add_now_date_to_time(Some(data.firstUsed)).value,
     end_timestamp |-> add_now_date_to_time(data.lastUsed).value,
     duration |-> data.totalUsage,
     is_active |-> data.isActive,
     app |-> strip_lower(data.name),
     productivity_status |-> "neutral"]

(* TrackerApps.objects.filter(name=name).first(): its row number, or None. *)
FindApp(apps, name) ==
    IF \E i \in 1 .. Len(apps) : apps[i].name = name
    THEN Some(CHOOSE i \in 1 .. Len(apps) :
                /\ apps[i].name = name
                /\ \A j \in 1 .. (i - 1) : apps[j].name # name)
    ELSE None

(* get_default_category: get_or_create(name=default_category); gives the    *)
(* categories table afterwards.                                             *)
get_default_category(categories) ==
    IF \E i \in 1 .. Len(categories) : categories[i].name = DEFAULT_TRACKER_CATEGORY
    THEN categories
    ELSE Append(categories, [name |-> DEFAULT_TRACKER_CATEGORY,
                             productivity_status_type |-> "neutral"])

(* create_new_app: the tables afterwards, the new app being the last row. *)
create_new_app(db, app_name) ==
    [db EXCEPT !.categories = get_default_category(db.categories),
               !.apps = Append(db.apps, [name |-> app_name,
                                         category |-> DEFAULT_TRACKER_CATEGORY])]

CategoryOf(db, category) ==
    db.categories[CHOOSE i \in 1 .. Len(db.categories) : db.categories[i].name = category]

(* One pass of post()'s loop over allWindows. *)
PostWindow(db, data) ==
    LET extracted_data == extract_data(data)
        found == FindApp(db.apps, extracted_data.app)
        db1 == IF IsNone(found) THEN create_new_app(db, extracted_data.app) ELSE db
        tracker_app == IF IsNone(found) THEN db1.apps[Len(db1.apps)] ELSE db1.apps[Val(found)]
        activity_log ==
            [extracted_data EXCEPT
               !.productivity_status =
                   CategoryOf(db1, tracker_app.category).productivity_status_type,
               !.app = tracker_app.name]
            @@ [category |-> tracker_app.category]
    IN  [db1 EXCEPT !.logs = Append(db1.logs, activity_log),
                    !.by_id = [id \in DOMAIN db1.by_id \cup {data.id} |->
                                 IF id = data.id THEN Len(db1.logs) + 1 ELSE db1.by_id[id]]]

RECURSIVE PostWindows(_, _, _)
PostWindows(db, all_windows, n) ==
    IF n > Len(all_windows) THEN db
    ELSE PostWindows(PostWindow(db, all_windows[n]), all_windows, n + 1)

(* The segment of one window, referencing no ActivityLogs row. *)
WindowTimeSegmentUnlinked(db, data) ==
    LET extracted == extract_data(data)
        app_category == CategoryOf(db, db.apps[Val(FindApp(db.apps, extracted.app))].category)
    IN  [start_time |-> extracted.start_timestamp,
         end_time |-> extracted.end_timestamp,
         duration |-> extracted.duration,
         segment_type |-> app_category.productivity_status_type,
         activity_log |-> None]

(* create_time_segments: the segment of one window ... *)
WindowTimeSegment(db, data) ==
    LET extracted == extract_data(data)
        app_category == CategoryOf(db, db.apps[Val(FindApp(db.apps, extracted.app))].category)
    IN  [start_time |-> extracted.start_timestamp,
         end_time |-> extracted.end_timestamp,
         duration |-> extracted.duration,
         segment_type |-> app_category.productivity_status_type,
         activity_log |-> Some(db.by_id[data.id])]

(* TimeSegments.objects.create(): activity_log is a OneToOneField, so the   *)
(* INSERT of a second row for the same ActivityLogs row raises.             *)
TimeSegments_create(segments, time_segment) ==
    IF /\ ~ IsNone(time_segment.activity_log)
       /\ \E i \in 1 .. Len(segments) : segments[i].activity_log = time_segment.activity_log
    THEN Raise("IntegrityError")
    ELSE Ok(Append(segments, time_segment))

(* The first loop of create_time_segments, up to the first create() that    *)
(* raises: <<tables, raised>>.                                              *)
RECURSIVE WindowTimeSegments(_, _, _)
WindowTimeSegments(db, all_windows, n) ==
    IF n > Len(all_windows) THEN <<db, FALSE>>
    ELSE LET created == TimeSegments_create(db.segments, WindowTimeSegment(db, all_windows[n]))
         IN  IF IsRaise(created) THEN <<db, TRUE>>
             ELSE WindowTimeSegments([db EXCEPT !.segments = created.value],
                                     all_windows, n + 1)

(* ... and of the idle states, up to the first whose endTime strptime       *)
(* refuses: <<tables, raised>>.                                             *)
RECURSIVE IdleTimeSegments(_, _, _)
IdleTimeSegments(db, idle_states, n) ==
    IF n > Len(idle_states) THEN <<db, FALSE>>
    ELSE LET end_time == add_now_date_to_time(idle_states[n].endTime) IN
         IF IsRaise(end_time) THEN <<db, TRUE>>
         ELSE IdleTimeSegments(
                [db EXCEPT !.segments =
                    Append(db.segments,
                           [start_time |-> idle_states[n].startTime,
                            end_time |-> end_time.value,
                            duration |-> idle_states[n].duration,
                            segment_type |-> "idle",
                            activity_log |-> None])],
                idle_states, n + 1)

(* post(): <<tables afterwards, status, data>>. A body that fails           *)
(* validation reaches `main_data.errors`, main_data being serializer.errors *)
(* itself (a dict): AttributeError, answered by the except clause.          *)
Post(db, data, now) ==
    LET main == get_main_data(data, now) IN
    IF main[2] = FALSE THEN <<db, 500, "AttributeError">>
    ELSE LET main_data == main[1]
             db1 == PostWindows(db, main_data.allWindows, 1)
             windows == WindowTimeSegments(db1, main_data.allWindows, 1)
             idle == IdleTimeSegments(windows[1], main_data.idleStates, 1)
         IN  IF windows[2] THEN <<windows[1], 500, "IntegrityError">>
             ELSE IF idle[2] THEN <<idle[1], 500, "ValueError">>
             ELSE <<idle[1], 200, "activity_logs, time_segments">>

(* POST /tracker/ by another user, with one window: its ActivityLogs and   *)
(* TimeSegments rows are that user's, the app and the category it creates   *)
(* are shared.                                                              *)
TrackerAPIViewPostOtherUser ==
    /\ IsNone(ingest_response)
    /\ Len(tracker_apps) < MaxKnownApps
    /\ \E data \in {all_windows \in AllWindowsValues : Len(all_windows) = 1} :
        LET db == PostWindow([apps |-> tracker_apps, categories |-> tracker_app_categories,
                              logs |-> <<>>, segments |-> <<>>, by_id |-> <<>>],
                             ValidatedItem(data[1], 0))
        IN  /\ db.apps # tracker_apps
            /\ tracker_apps' = db.apps
            /\ tracker_app_categories' = db.categories
    /\ UNCHANGED <<TIME_GAP_LIMIT, TIME_ZONE, time_segments, time_bar_data, time_bar_response,
                   activity_logs, day_calculations, week_vars, work_week_vars,
                   ingest_response, repeat_response,
                   patch_response, concurrent_posts,
                   summary_vars>>

(* POST /tracker/ by the user that is followed. *)
TrackerAPIViewPost ==
    /\ IsNone(ingest_response)
    /\ \E data \in RequestBodies, now \in 0 .. MaxIngestTime :
        LET result == Post([apps |-> tracker_apps, categories |-> tracker_app_categories,
                            logs |-> activity_logs, segments |-> time_segments,
                            by_id |-> <<>>],
                           data, now)
        IN  /\ tracker_apps' = result[1].apps
            /\ tracker_app_categories' = result[1].categories
            /\ activity_logs' = result[1].logs
            /\ time_segments' = result[1].segments
            /\ ingest_response' = Some([status |-> result[2], data |-> result[3],
                                        body |-> data,
                                        apps_before |-> tracker_apps])
    /\ UNCHANGED <<TIME_GAP_LIMIT, TIME_ZONE, time_bar_data, time_bar_response,
                   day_calculations, week_vars, work_week_vars,
                   repeat_response,
                   patch_response, concurrent_posts,
                   summary_vars>>

NextIngest ==
    \/ TrackerAPIViewPostOtherUser
    \/ TrackerAPIViewPost

SpecIngest == Init /\ [][NextIngest]_vars

(* ========================== ingest: properties ========================== *)
PostAnswered == ~ IsNone(ingest_response)
Posted == Val(ingest_response)
BodyValid == PostAnswered /\ SerializerErrors(Posted.body) = {}
BatchSize == Len(Posted.body.allWindows)
BatchName(i) == strip_lower(Posted.body.allWindows[i].name)
AppNames(apps) == {apps[i].name : i \in 1 .. Len(apps)}

BatchNamesDistinctAndUnseen ==
    /\ \A i, j \in 1 .. BatchSize : i # j => BatchName(i) # BatchName(j)
    /\ \A i \in 1 .. BatchSize : BatchName(i) \notin AppNames(Posted.apps_before)

(* The entries of the batch are well-formed each: a lastUsed, or the entry  *)
(* active.                                                                  *)
BatchEntriesWellFormed ==
    \A i \in 1 .. BatchSize :
        ~ (IsNone(Posted.body.allWindows[i].lastUsed)
             /\ Posted.body.allWindows[i].isActive # TRUE)

(* C17: a batch of N >= 1 window entries whose normalised app names are     *)
(* pairwise distinct and name no app known before creates exactly N         *)
(* ActivityLogs rows and exactly N TrackerApps rows, one per name and each  *)
(* in the default category, and a category exists afterwards.               *)
C17_UnseenBatchCreatesLogsAndApps ==
    (PostAnswered /\ BatchSize >= 1 /\ BatchEntriesWellFormed
        /\ BatchNamesDistinctAndUnseen) =>
        /\ Len(activity_logs) = BatchSize
        /\ Len(tracker_apps) = Len(Posted.apps_before) + BatchSize
        /\ SubSeq(tracker_apps, 1, Len(Posted.apps_before)) = Posted.apps_before
        /\ \A i \in 1 .. BatchSize :
             tracker_apps[Len(Posted.apps_before) + i]
               = [name |-> BatchName(i), category |-> DEFAULT_TRACKER_CATEGORY]
        /\ Len(tracker_app_categories) > 0

(* C18: every stored ActivityLog has duration >= 0, and an entry whose      *)
(* start is after its end is stored as it is, the request not failing for   *)
(* it.                                                                      *)
C18_DurationNonNegative ==
    BodyValid =>
        /\ \A i \in 1 .. Len(activity_logs) : activity_logs[i].duration >= 0
        /\ Len(activity_logs) = BatchSize
        /\ \A i \in 1 .. BatchSize :
             activity_logs[i].start_timestamp = Posted.body.allWindows[i].firstUsed
        /\ (\A k \in 1 .. Len(Val(Posted.body.idleStates)) :
               ~ IsNone(Val(Posted.body.idleStates)[k].endTime))
             => Posted.status = 200

(* C20: a body that fails validation is answered 400 with the serializer's  *)
(* field-level errors, and no ActivityLogs, TimeSegments or TrackerApps row *)
(* is created.                                                              *)
C20_InvalidBodyIs400 ==
    (PostAnswered /\ ~ BodyValid) =>
        /\ Posted.status = 400
        /\ Posted.data = SerializerErrors(Posted.body)
        /\ activity_logs = <<>>
        /\ time_segments = <<>>
        /\ tracker_apps = Posted.apps_before

(* ===================== read-only requests, repeated ===================== *)
(* GET /tracker/time-bar once more, with the query parameters of the        *)
(* request already answered.                                                *)
TrackerTimeBarViewGetAgain ==
    /\ ~ IsNone(time_bar_response)
    /\ IsNone(repeat_response)
    /\ LET query == Val(time_bar_response).query
           result == TimeBarGet(time_segments, query.time_start, query.time_end,
                                query.fine_grained, TIME_GAP_LIMIT, TIME_ZONE)
       IN  /\ time_bar_data' = result[1]
           /\ repeat_response' = Some(result[2])
           /\ time_segments' = TimeSegmentsAfterGet(time_segments, result[2])
    /\ UNCHANGED <<TIME_GAP_LIMIT, TIME_ZONE, time_bar_response, activity_logs,
                   day_calculations, week_vars, work_week_vars, ingest_vars, patch_response, concurrent_posts,
                   summary_vars>>

(* The start_time or end_time of the request a break-down answers. *)
LocalTimeAsked(time) ==
    IF IsNone(time) THEN None ELSE Some((Val(time) + TIME_ZONE) % Day)

(* GET of the productive break-down once more, with the same start_time and *)
(* end_time.                                                                *)
ProductiveBreakDownDayAgain ==
    /\ ~ IsNone(day_calculations)
    /\ IsNone(repeat_response)
    /\ LET answered == Val(day_calculations)
           start_time == IF answered.status = 400 THEN answered.start_time
                         ELSE LocalTimeAsked(answered.start_time)
           end_time == IF answered.status = 400 THEN answered.end_time
                       ELSE LocalTimeAsked(answered.end_time)
       IN  repeat_response' =
             Some(BreakDownDayGet(activity_logs, start_time, end_time,
                                  TIME_GAP_LIMIT, TIME_ZONE))
    /\ UNCHANGED <<TIME_GAP_LIMIT, TIME_ZONE, time_segments, time_bar_data,
                   time_bar_response, activity_logs, day_calculations, week_vars,
                   work_week_vars, ingest_vars, patch_response, concurrent_posts,
                   summary_vars>>

(* One endpoint is followed at a time. *)
NextReadOnly ==
    \/ /\ activity_logs = <<>> /\ IsNone(day_calculations)
       /\ \/ TimeSegmentsCreate
          \/ TrackerTimeBarViewGet
          \/ TrackerTimeBarViewGetAgain
    \/ /\ time_segments = <<>> /\ IsNone(time_bar_response)
       /\ \/ ActivityLogsCreate
          \/ ProductiveBreakDownDay
          \/ ProductiveBreakDownDayAgain

SpecReadOnly == Init /\ [][NextReadOnly]_vars

Tables == <<time_segments, activity_logs, tracker_apps, tracker_app_categories>>
Responses == <<time_bar_response, day_calculations, repeat_response>>
FirstResponse ==
    IF ~ IsNone(time_bar_response) THEN Val(time_bar_response) ELSE Val(day_calculations)

C21_NoPartialSuccess ==
    (BodyValid /\ Posted.status # 200) =>
        /\ activity_logs = <<>>
        /\ time_segments = <<>>
        /\ tracker_apps = Posted.apps_before
        /\ (Posted.apps_before = <<>> => tracker_app_categories = <<>>)

(* ======================= categories and apps ============================ *)
CategoryNames == {"work", "play"}

(* TrackerAppCategoryPostSerializer.validate: the name is not taken. *)
TrackerAppCategoryPostSerializerIsValid(categories, name) ==
    ~ \E i \in 1 .. Len(categories) : categories[i].name = name

(* POST /tracker/categories *)
TrackerAppCategoryViewPost ==
    /\ IsNone(patch_response)
    /\ Len(tracker_app_categories) < MaxCategories
    /\ \E name \in CategoryNames, productivity_status_type \in ProductivityStatuses :
        /\ TrackerAppCategoryPostSerializerIsValid(tracker_app_categories, name)
        /\ tracker_app_categories' =
             Append(tracker_app_categories,
                    [name |-> name, productivity_status_type |-> productivity_status_type])
    /\ UNCHANGED <<TIME_GAP_LIMIT, TIME_ZONE, time_segments, time_bar_data, time_bar_response,
                   activity_logs, day_calculations, week_vars, work_week_vars,
                   tracker_apps, ingest_response, repeat_response, patch_response, concurrent_posts,
                   summary_vars>>

(* app.update(): models.Model has save(), and TrackerApps defines no        *)
(* update(), so the call raises.                                            *)
TrackerApps_update(apps, app, category) == Raise("AttributeError")

(* TrackerSetAppCategoryView.patch: <<TrackerApps rows afterwards, status>>; *)
(* app and category are row numbers standing for the uuids sent.            *)
SetAppCategoryPatch(apps, categories, app, category) ==
    IF app \notin 1 .. Len(apps) \/ category \notin 1 .. Len(categories)
    THEN <<apps, 400>>
    ELSE LET updated == TrackerApps_update(apps, app, categories[category].name) IN
         IF IsRaise(updated) THEN <<apps, 500>> ELSE <<updated.value, 200>>

(* PATCH /tracker/apps/update *)
TrackerSetAppCategoryViewPatch ==
    /\ IsNone(patch_response)
    /\ \E app \in 0 .. Len(tracker_apps), category \in 0 .. Len(tracker_app_categories) :
        LET result == SetAppCategoryPatch(tracker_apps, tracker_app_categories, app, category)
        IN  /\ tracker_apps' = result[1]
            /\ patch_response' = Some([status |-> result[2], app |-> app,
                                       category |-> category])
    /\ UNCHANGED <<TIME_GAP_LIMIT, TIME_ZONE, time_segments, time_bar_data, time_bar_response,
                   activity_logs, day_calculations, week_vars, work_week_vars,
                   tracker_app_categories, ingest_response, repeat_response,
                   concurrent_posts,
                   summary_vars>>

NextCategories ==
    \/ TrackerAPIViewPostOtherUser
    \/ TrackerAppCategoryViewPost
    \/ TrackerSetAppCategoryViewPatch

SpecCategories == Init /\ [][NextCategories]_vars

Patched == Val(patch_response)

(* C22: PATCH /tracker/apps/update with an existing app and an existing     *)
(* category succeeds and the app's category becomes the one given; the      *)
(* ActivityLogs and TimeSegments rows that exist are left as they are.      *)
C22_AppCategoryReassigned ==
    (~ IsNone(patch_response)
        /\ Patched.app \in 1 .. Len(tracker_apps)
        /\ Patched.category \in 1 .. Len(tracker_app_categories)) =>
        /\ Patched.status = 200
        /\ tracker_apps[Patched.app].category = tracker_app_categories[Patched.category].name
        /\ activity_logs = <<>>
        /\ time_segments = <<>>

(* ===================== two ingest requests at once ====================== *)
(* Each worker serves one request whose allWindows holds one valid entry    *)
(* and whose idleStates is empty; the steps are the database statements of  *)
(* post(), each one atomic, in the order the code issues them.              *)
ConcurrentWindows == {item \in WindowItems : item.id = 1 /\ ItemErrors(item) = {}}

(* TrackerApps.objects.create(): name is unique, so the INSERT of a name    *)
(* that is there raises IntegrityError.                                     *)
TrackerApps_create(apps, name, category) ==
    IF \E i \in 1 .. Len(apps) : apps[i].name = name
    THEN Raise("IntegrityError")
    ELSE Ok(Append(apps, [name |-> name, category |-> category]))

(* The request arrives and is validated. *)
ConcurrentPostArrive(worker) ==
    /\ concurrent_posts[worker].pc = "idle"
    /\ \E item \in ConcurrentWindows, now \in 0 .. MaxIngestTime :
        concurrent_posts' =
            [concurrent_posts EXCEPT ![worker] = [pc |-> "filter", data |-> ValidatedItem(item, now)]]
    /\ UNCHANGED <<TIME_GAP_LIMIT, TIME_ZONE, time_segments, time_bar_data, time_bar_response,
                   activity_logs, day_calculations, week_vars, work_week_vars, ingest_vars,
                   repeat_response, patch_response,
                   summary_vars>>

(* tracker_app = TrackerApps.objects.filter(name=...).first() *)
ConcurrentPostFilter(worker) ==
    /\ concurrent_posts[worker].pc = "filter"
    /\ LET tracker_app == FindApp(tracker_apps, extract_data(concurrent_posts[worker].data).app)
       IN  concurrent_posts' =
             [concurrent_posts EXCEPT ![worker].pc = IF IsNone(tracker_app) THEN "create" ELSE "log"]
    /\ UNCHANGED <<TIME_GAP_LIMIT, TIME_ZONE, time_segments, time_bar_data, time_bar_response,
                   activity_logs, day_calculations, week_vars, work_week_vars, ingest_vars,
                   repeat_response, patch_response,
                   summary_vars>>

(* create_new_app(): get_default_category(), then the INSERT; a raise       *)
(* reaches post()'s except clause, which answers 500.                       *)
ConcurrentPostCreateNewApp(worker) ==
    /\ concurrent_posts[worker].pc = "create"
    /\ LET created == TrackerApps_create(tracker_apps,
                                         extract_data(concurrent_posts[worker].data).app,
                                         DEFAULT_TRACKER_CATEGORY)
       IN  /\ tracker_app_categories' = get_default_category(tracker_app_categories)
           /\ tracker_apps' = IF IsRaise(created) THEN tracker_apps ELSE created.value
           /\ concurrent_posts' =
                [concurrent_posts EXCEPT ![worker] =
                    IF IsRaise(created)
                    THEN [pc |-> "done", data |-> @.data, status |-> 500]
                    ELSE [pc |-> "log", data |-> @.data]]
    /\ UNCHANGED <<TIME_GAP_LIMIT, TIME_ZONE, time_segments, time_bar_data, time_bar_response,
                   activity_logs, day_calculations, week_vars, work_week_vars,
                   ingest_response, repeat_response, patch_response,
                   summary_vars>>

(* ActivityLogs.objects.create(), create_time_segments(), Response(200). *)
ConcurrentPostCreateLog(worker) ==
    /\ concurrent_posts[worker].pc = "log"
    /\ LET data == concurrent_posts[worker].data
           db == [apps |-> tracker_apps, categories |-> tracker_app_categories,
                  logs |-> activity_logs, segments |-> time_segments, by_id |-> <<>>]
           db1 == PostWindow(db, data)
           db2 == WindowTimeSegments(db1, <<data>>, 1)[1]
       IN  /\ activity_logs' = db2.logs
           /\ time_segments' = db2.segments
           /\ concurrent_posts' =
                [concurrent_posts EXCEPT ![worker] = [pc |-> "done", data |-> data, status |-> 200]]
    /\ UNCHANGED <<TIME_GAP_LIMIT, TIME_ZONE, time_bar_data, time_bar_response,
                   day_calculations, week_vars, work_week_vars, ingest_vars,
                   repeat_response, patch_response,
                   summary_vars>>

NextConcurrent ==
    \E worker \in Workers :
        \/ ConcurrentPostArrive(worker)
        \/ ConcurrentPostFilter(worker)
        \/ ConcurrentPostCreateNewApp(worker)
        \/ ConcurrentPostCreateLog(worker)

SpecConcurrent == Init /\ [][NextConcurrent]_vars

PostDone(worker) == concurrent_posts[worker].pc = "done"

PostedApp(worker) == extract_data(concurrent_posts[worker].data).app

AppRows(name) == {i \in 1 .. Len(tracker_apps) : tracker_apps[i].name = name}

(* C23: two ingest requests that both name the same app, unseen when they   *)
(* arrive, both succeed, and one TrackerApps row of that name exists        *)
(* afterwards.                                                              *)
C23_ConcurrentUnseenAppBothSucceed ==
    \A first, second \in Workers :
        (first # second /\ PostDone(first) /\ PostDone(second)
            /\ PostedApp(first) = PostedApp(second)) =>
            /\ concurrent_posts[first].status = 200
            /\ concurrent_posts[second].status = 200
            /\ Cardinality(AppRows(PostedApp(first))) = 1

(* ==================== time bar: further properties ====================== *)
(* C24: a time-bar request with fine_grained=true is answered with the      *)
(* timeline of the stored segments: it succeeds, and reports spans whenever *)
(* segments are stored.                                                     *)
C24_FineGrainedAnswers ==
    (Answered /\ Response.query.fine_grained
        /\ GetTimeSegmentsSerializerIsValid(Response.query.time_start, Response.query.time_end)) =>
        /\ Response.status = 200
        /\ (time_segments # <<>> => Response.time_bar_data # <<>>)

LocalTime(datetime) == (datetime + TIME_ZONE) % Day

(* C26: every span of a successful time-bar response carries the local time *)
(* of day (UTC plus the zone's offset) of the start and the end of the span *)
(* it reports, whether or not time_start and time_end were passed.          *)
C26_SpansInLocalTime ==
    Merged =>
        \A a \in 1 .. Len(time_bar_data) :
            \E i \in RealEntries :
                /\ Response.time_bar_data[i].start_time = LocalTime(time_bar_data[a].start_time)
                /\ Response.time_bar_data[i].end_time = LocalTime(time_bar_data[a].end_time)

(* ============================ format_time =============================== *)
(* The whole numbers of seconds tried: up to MaxFormatDays days, and within *)
(* the day every combination of a zero, a least and a greatest component.   *)
FormatTimeSeconds ==
    {days * 86400 + hours * 3600 + minutes * 60 + seconds :
        days \in 0 .. MaxFormatDays, hours \in {0, 1, 23},
        minutes \in {0, 1, 59}, seconds \in {0, 1, 59}}

(* divmod(a, b) of non-negative a: <<quotient, remainder>>. *)
divmod(a, b) == <<a \div b, a % b>>

(* timedelta(seconds=seconds).days *)
timedelta_days(seconds) == seconds \div 86400

(* format_time: the result string as the sequence of its components, each a *)
(* <<number, unit>> pair in the order they are written.                     *)
format_time(seconds) ==
    LET days == timedelta_days(seconds)
        mins == divmod(seconds, 60)[1]
        secs == divmod(seconds, 60)[2]
        hours == divmod(mins, 60)[1]
        minutes == divmod(mins, 60)[2]
        result ==
            (IF days # 0 THEN << <<days, IF days # 1 THEN "days" ELSE "day">> >> ELSE <<>>)
            \o (IF hours # 0 THEN << <<hours, "h">> >> ELSE <<>>)
            \o (IF minutes # 0 THEN << <<minutes, "m">> >> ELSE <<>>)
            \o (IF secs # 0 THEN << <<secs, "s">> >> ELSE <<>>)
    IN  IF result = <<>> THEN << <<0, "s">> >> ELSE result

InitFormatTime ==
    /\ InitTables
    /\ format_time_call \in {Some([seconds |-> seconds, result |-> None]) :
                                seconds \in FormatTimeSeconds}

(* format_time is called with the seconds, and returns. *)
FormatTime ==
    /\ ~ IsNone(format_time_call)
    /\ IsNone(Val(format_time_call).result)
    /\ format_time_call' =
         Some([Val(format_time_call) EXCEPT !.result = Some(format_time(Val(format_time_call).seconds))])
    /\ UNCHANGED <<TIME_GAP_LIMIT, TIME_ZONE, time_segments, time_bar_data, time_bar_response,
                   activity_logs, day_calculations, week_vars, work_week_vars, ingest_vars,
                   repeat_response, patch_response, concurrent_posts,
                   productivity_tracker, weekly_logs, weekly_summary>>

NextFormatTime == FormatTime

SpecFormatTime == InitFormatTime /\ [][NextFormatTime]_vars

UnitSeconds(unit) ==
    CASE unit \in {"day", "days"} -> 86400
      [] unit = "h" -> 3600
      [] unit = "m" -> 60
      [] unit = "s" -> 1

(* The seconds a formatted time stands for. *)
RECURSIVE SecondsOf(_, _)
SecondsOf(result, n) ==
    IF n > Len(result) THEN 0
    ELSE result[n][1] * UnitSeconds(result[n][2]) + SecondsOf(result, n + 1)

Formatted == ~ IsNone(format_time_call) /\ ~ IsNone(Val(format_time_call).result)
FormatArg == Val(format_time_call).seconds
FormatResult == Val(Val(format_time_call).result)

(* C30: the components format_time writes for a non-negative whole number   *)
(* of seconds, a day or more included, add up to that number; a component   *)
(* of zero is left out, and zero seconds give "0s".                         *)
C30_FormatTimeAddsUp ==
    Formatted =>
        /\ SecondsOf(FormatResult, 1) = FormatArg
        /\ (FormatArg # 0 => \A n \in 1 .. Len(FormatResult) : FormatResult[n][1] # 0)
        /\ (FormatArg = 0 => FormatResult = << <<0, "s">> >>)

(* =================== TrackerProductivityStatusView ====================== *)
(* time_tracker as get() starts it. *)
TimeTrackerKeys == {"productive_time", "non_productive_time", "neutral_time"}

(* f"{activity_log.productivity_status}_time" *)
TimeTrackerKey(productivity_status) ==
    CASE productivity_status = "productive" -> "productive_time"
      [] productivity_status = "non-productive" -> "non-productive_time"
      [] productivity_status = "neutral" -> "neutral_time"

(* The loop of get() from the n-th log on: time_tracker[key] += duration    *)
(* raises KeyError for a key the dict does not hold.                        *)
RECURSIVE TimeTrackerFrom(_, _, _)
TimeTrackerFrom(logs, n, time_tracker) ==
    IF n > Len(logs) THEN Ok(time_tracker)
    ELSE LET key == TimeTrackerKey(logs[n].productivity_status) IN
         IF key \notin DOMAIN time_tracker THEN Raise("KeyError")
         ELSE TimeTrackerFrom(logs, n + 1,
                [time_tracker EXCEPT ![key] = @ + logs[n].duration])

(* TrackerProductivityStatusView.format_time: each total, formatted. *)
ProductivityStatus_format_time(time_tracker) ==
    [key \in DOMAIN time_tracker |-> format_time(time_tracker[key])]

(* filter(start_timestamp__date=date, end_timestamp__date=date): the logs   *)
(* stored start on the date; those that end on it too.                      *)
StartAndEndOnDate(logs) ==
    SelectSeq(logs, LAMBDA log : log.end_timestamp \div Day = log.start_timestamp \div Day)

(* TrackerProductivityStatusView.get for a user and a date the serializer   *)
(* accepts, over the user's logs of the date.                               *)
ProductivityStatusGet(logs) ==
    LET activity_logs_of_date == StartAndEndOnDate(logs)
        time_tracker == TimeTrackerFrom(activity_logs_of_date, 1,
                                        [key \in TimeTrackerKeys |-> 0])
    IN  IF IsRaise(time_tracker)
        THEN [status |-> 500, data |-> time_tracker.exc, logs |-> activity_logs_of_date]
        ELSE [status |-> 200,
              data |-> ProductivityStatus_format_time(time_tracker.value),
              logs |-> activity_logs_of_date]

(* GET /tracker/productivity-status *)
TrackerProductivityStatusViewGet ==
    /\ IsNone(productivity_tracker)
    /\ IsNone(day_calculations)
    /\ productivity_tracker' = Some(ProductivityStatusGet(activity_logs))
    /\ UNCHANGED <<TIME_GAP_LIMIT, TIME_ZONE, time_segments, time_bar_data, time_bar_response,
                   activity_logs, day_calculations, week_vars, work_week_vars, ingest_vars,
                   repeat_response, patch_response, concurrent_posts,
                   format_time_call, weekly_logs, weekly_summary>>

NextProductivityStatus ==
    \/ ActivityLogsCreate
    \/ TrackerProductivityStatusViewGet

SpecProductivityStatus == Init /\ [][NextProductivityStatus]_vars

Tracked == Val(productivity_tracker)

(* C25: the productivity-status request succeeds, and each of its three     *)
(* totals is the sum of `duration` over the logs of that productivity       *)
(* status, formatted.                                                       *)
C25_ThreeTotalsOfDurations ==
    ~ IsNone(productivity_tracker) =>
        /\ Tracked.status = 200
        /\ Tracked.data =
             [key \in TimeTrackerKeys |->
                format_time(SumDurations(Tracked.logs,
                    CASE key = "productive_time" -> {"productive"}
                      [] key = "non_productive_time" -> {"non-productive"}
                      [] key = "neutral_time" -> {"neutral"}, 1))]

(* ========================= TrackerWeeklySummary ========================= *)
(* Datetimes here are absolute: the date's ordinal times Day, plus the time *)
(* of day.                                                                  *)
DatetimeOn(date, time) == date * Day + time
DateOf(datetime) == datetime \div Day

WeeklyLogDates == (FirstDate + 6) .. (FirstDate + 7)
WeeklyQueryDates == FirstDate .. (FirstDate + 6)

(* ActivityLogs rows of the user; create_time_segments stores a TimeSegments *)
(* row of the same start, end and type with each.                           *)
WeeklyLogRows ==
    {[start_timestamp |-> DatetimeOn(date, time),
      end_timestamp |-> DatetimeOn(date, time) + 1,
      productivity_status |-> status] :
        date \in WeeklyLogDates, time \in {0, 2}, status \in {"productive", "neutral"}}

(* TrackerWeeklySummary.get_closest_start_date has the body of              *)
(* TrackerProductiveBreakDownView.get_closest_start_date.                   *)
WeeklySummary_get_closest_start_date(date, week_start_index) ==
    get_closest_start_date(date, week_start_index)

(* last_date, six days away. *)
WeeklyLastDateShort(closest_start_date, progression) ==
    IF progression = "forward" THEN closest_start_date + 6 ELSE closest_start_date - 6

(* last_date *)
WeeklyLastDate(closest_start_date, progression) ==
    IF progression = "forward" THEN closest_start_date + 7 ELSE closest_start_date - 7

(* ActivityLogs.objects.filter(start_timestamp__date=working_date) *)
LogsOn(logs, working_date) ==
    SelectSeq(logs, LAMBDA log : DateOf(log.start_timestamp) = working_date)

(* .order_by("start_timestamp").first() and .last() *)
FirstByStart(logs) ==
    logs[CHOOSE i \in 1 .. Len(logs) :
            /\ \A j \in 1 .. Len(logs) : logs[i].start_timestamp <= logs[j].start_timestamp
            /\ \A j \in 1 .. (i - 1) : logs[j].start_timestamp # logs[i].start_timestamp]

LastByStart(logs) ==
    logs[CHOOSE i \in 1 .. Len(logs) :
            /\ \A j \in 1 .. Len(logs) : logs[i].start_timestamp >= logs[j].start_timestamp
            /\ \A j \in (i + 1) .. Len(logs) : logs[j].start_timestamp # logs[i].start_timestamp]

(* The loop over the day's time segments from the index on: <<working_time, *)
(* away_time>>.                                                             *)
RECURSIVE WeeklySegmentsLoop(_, _, _, _, _)
WeeklySegmentsLoop(segments, index, working_time, away_time, limit) ==
    IF index > Len(segments) THEN <<working_time, away_time>>
    ELSE LET worked == IF segments[index].productivity_status = "productive"
                       THEN working_time
                            + (segments[index].end_timestamp - segments[index].start_timestamp)
                       ELSE working_time
             duration == IF index < Len(segments)
                         THEN segments[index + 1].start_timestamp - segments[index].end_timestamp
                         ELSE 0
             away == IF index < Len(segments)
                        /\ segments[index].end_timestamp < segments[index + 1].start_timestamp
                        /\ ~ (duration <= limit)
                     THEN away_time + duration
                     ELSE away_time
         IN  WeeklySegmentsLoop(segments, index + 1, worked, away, limit)

(* The body of the while loop for one working_date: the two strings. *)
WeeklyDay(logs, working_date, date, time_start, time_end, limit) ==
    LET activity_logs_on == LogsOn(logs, working_date) IN
    IF Len(activity_logs_on) = 0 THEN << << <<0, "s">> >>, << <<0, "s">> >> >>
    ELSE LET start_time == FirstByStart(activity_logs_on).start_timestamp
             last_seen == LastByStart(activity_logs_on).end_timestamp
             time_start_datetime == DatetimeOn(date, time_start)
             time_end_datetime == DatetimeOn(date, time_end)
             away_before == IF time_start_datetime < start_time
                            THEN start_time - time_start_datetime ELSE 0
             away_after == IF time_end_datetime > last_seen
                           THEN time_end_datetime - last_seen ELSE 0
             totals == WeeklySegmentsLoop(activity_logs_on, 1, 0, away_before + away_after, limit)
         IN  <<format_time(totals[1]), format_time(totals[2])>>

(* dict[key] = value *)
DictSet(dict, key, value) ==
    [k \in DOMAIN dict \cup {key} |-> IF k = key THEN value ELSE dict[k]]

(* while working_date != last_date: <<response, the dates visited>>. *)
RECURSIVE WeeklyLoop(_, _, _, _, _, _, _, _, _, _)
WeeklyLoop(logs, working_date, last_date, progression, date, time_start, time_end, limit, response, visited) ==
    IF working_date = last_date THEN <<response, visited>>
    ELSE LET day == WeeklyDay(logs, working_date, date, time_start, time_end, limit)
             name == weekdays[weekday(working_date) + 1]
         IN  WeeklyLoop(logs,
                        IF progression = "forward" THEN working_date + 1 ELSE working_date - 1,
                        last_date, progression, date, time_start, time_end, limit,
                        [working_time |-> DictSet(response.working_time, name, day[1]),
                         away_time |-> DictSet(response.away_time, name, day[2])],
                        Append(visited, working_date))

(* GetWeeklyHoursSerializer.validate *)
GetWeeklyHoursSerializerIsValid(time_start, time_end) == ~ (time_start > time_end)

WeeklyQueries ==
    [date : {None} \cup {Some(date) : date \in WeeklyQueryDates},
     week_start : {None} \cup {Some(name) : name \in WeekdayNames},
     progression : {"forward", "backward"},
     window : {<<0, Day - 1>>, <<Day - 1, 0>>}]

(* TrackerWeeklySummary.get; `now` is the date of timezone.now(). *)
WeeklySummaryGet(logs, query, now, limit) ==
    IF ~ GetWeeklyHoursSerializerIsValid(query.window[1], query.window[2])
    THEN [status |-> 400, query |-> query]
    ELSE LET date == IF IsNone(query.date) THEN now ELSE Val(query.date)
             week_start_index ==
                 WeekdayIndex(IF IsNone(query.week_start) THEN "monday" ELSE Val(query.week_start))
             closest_start_date == WeeklySummary_get_closest_start_date(date, week_start_index)
             last_date == WeeklyLastDate(closest_start_date, query.progression)
             walked == WeeklyLoop(logs, closest_start_date, last_date, query.progression, date,
                                  query.window[1], query.window[2], limit,
                                  [working_time |-> <<>>, away_time |-> <<>>], <<>>)
         IN  [status |-> 200, query |-> query, data |-> walked[1],
              closest_start_date |-> closest_start_date, visited |-> walked[2]]

(* An ActivityLogs row of the user is stored, and its TimeSegments row. *)
WeeklyLogsCreate ==
    /\ IsNone(weekly_summary)
    /\ Len(weekly_logs) < MaxWeeklyLogs
    /\ \E row \in WeeklyLogRows : weekly_logs' = Append(weekly_logs, row)
    /\ UNCHANGED <<TIME_GAP_LIMIT, TIME_ZONE, time_segments, time_bar_data, time_bar_response,
                   activity_logs, day_calculations, week_vars, work_week_vars, ingest_vars,
                   repeat_response, patch_response, concurrent_posts,
                   format_time_call, productivity_tracker, weekly_summary>>

(* GET /tracker/weekly-summary *)
TrackerWeeklySummaryGet ==
    /\ IsNone(weekly_summary)
    /\ \E query \in WeeklyQueries, now \in WeeklyQueryDates :
        /\ (~ IsNone(query.date)) => now = FirstDate
        /\ weekly_summary' = Some(WeeklySummaryGet(weekly_logs, query, now, TIME_GAP_LIMIT))
    /\ UNCHANGED <<TIME_GAP_LIMIT, TIME_ZONE, time_segments, time_bar_data, time_bar_response,
                   activity_logs, day_calculations, week_vars, work_week_vars, ingest_vars,
                   repeat_response, patch_response, concurrent_posts,
                   format_time_call, productivity_tracker, weekly_logs>>

NextWeeklySummary ==
    \/ WeeklyLogsCreate
    \/ TrackerWeeklySummaryGet

SpecWeeklySummary == Init /\ [][NextWeeklySummary]_vars

Summarised == ~ IsNone(weekly_summary) /\ Val(weekly_summary).status = 200
Summary == Val(weekly_summary)
WalkStep == IF Summary.query.progression = "forward" THEN 1 ELSE 0 - 1

(* C27: the day walk of the weekly summary ends after exactly seven dates:  *)
(* the start date and the six that follow it (forward) or precede it        *)
(* (backward), dates without logs included; the response has an entry of    *)
(* working_time and of away_time for each of the seven weekday names.       *)
C27_WalkVisitsSevenDates ==
    Summarised =>
        /\ Len(Summary.visited) = 7
        /\ \A n \in 1 .. Len(Summary.visited) :
            Summary.visited[n] = Summary.closest_start_date + (n - 1) * WalkStep
        /\ DOMAIN Summary.data.working_time = WeekdayNames
        /\ DOMAIN Summary.data.away_time = WeekdayNames

C27_Witness ==
    /\ Summarised
    /\ Summary.query.progression = "backward"
    /\ \E n \in 1 .. Len(Summary.visited) : LogsOn(weekly_logs, Summary.visited[n]) # <<>>
    /\ \E n \in 1 .. Len(Summary.visited) : LogsOn(weekly_logs, Summary.visited[n]) = <<>>

(* ================== merge engine: further properties ==================== *)
(* The counts of a label map, summed from the n-th key on ...               *)
RECURSIVE SumCounts(_, _)
SumCounts(map, n) ==
    IF n > Len(map) THEN 0 ELSE map[n][2] + SumCounts(map, n + 1)

(* ... and those of all the spans from the n-th on. *)
RECURSIVE TotalCounts(_, _)
TotalCounts(time_bar, n) ==
    IF n > Len(time_bar) THEN 0
    ELSE SumCounts(time_bar[n].productivity_status_map, 1) + TotalCounts(time_bar, n + 1)

SpansHolding(j) ==
    {a \in 1 .. Len(time_bar_data) :
        time_bar_data[a].start_time <= SegStart(j) /\ SegEnd(j) <= time_bar_data[a].end_time}

(* The spans open when the n-th segment is reached. *)
TimeBarBefore(n) == MergeFrom(<<>>, SubSeq(time_segments, 1, n - 1), 1)

(* C28: for segments in start order with non-negative durations, every      *)
(* segment's interval lies within exactly one output span, the counts of    *)
(* all label maps add up to the number of segments, the spans are in        *)
(* strictly increasing start order, and a segment that is merged is merged  *)
(* into the span opened last.                                               *)
C28_MergeInvariants ==
    Merged =>
        /\ \A j \in 1 .. Len(time_segments) : Cardinality(SpansHolding(j)) = 1
        /\ TotalCounts(time_bar_data, 1) = Len(time_segments)
        /\ \A a \in 1 .. (Len(time_bar_data) - 1) :
            time_bar_data[a].start_time < time_bar_data[a + 1].start_time
        /\ \A n \in 1 .. Len(time_segments) :
            FirstOverlap(TimeBarBefore(n), time_segments[n]) \in {0, Len(TimeBarBefore(n))}

(* Three segments: the second opens a second span, the third extends it. *)
C28_Witness ==
    /\ Merged
    /\ Len(time_segments) = MaxSegments
    /\ Len(time_bar_data) = 2
    /\ SumCounts(time_bar_data[2].productivity_status_map, 1) = 2
    /\ time_bar_data[2].end_time > SegEnd(2)

(* ================== ingest: the ids of the window entries =============== *)
(* Bodies the serializer accepts, the ids of whose entries are free.        *)
AnyIdWindows ==
    UNION {[1 .. n -> {item \in WindowItems :
                          /\ ItemErrors(item) = {}
                          /\ item.lastUsed = Some(0)
                          /\ item.totalUsage = 1
                          /\ item.isActive}] : n \in 0 .. MaxBatch}

AnyIdBodies == [allWindows : AnyIdWindows, idleStates : IdleStatesValues \ {None}]

(* POST /tracker/ by the user that is followed, with such a body. *)
TrackerAPIViewPostAnyIds ==
    /\ IsNone(ingest_response)
    /\ \E data \in AnyIdBodies, now \in 0 .. MaxIngestTime :
        LET result == Post([apps |-> tracker_apps, categories |-> tracker_app_categories,
                            logs |-> activity_logs, segments |-> time_segments,
                            by_id |-> <<>>],
                           data, now)
        IN  /\ tracker_apps' = result[1].apps
            /\ tracker_app_categories' = result[1].categories
            /\ activity_logs' = result[1].logs
            /\ time_segments' = result[1].segments
            /\ ingest_response' = Some([status |-> result[2], data |-> result[3],
                                        body |-> data,
                                        apps_before |-> tracker_apps])
    /\ UNCHANGED <<TIME_GAP_LIMIT, TIME_ZONE, time_bar_data, time_bar_response,
                   day_calculations, week_vars, work_week_vars,
                   repeat_response, patch_response, concurrent_posts, summary_vars>>

NextIngestIds ==
    \/ TrackerAPIViewPostOtherUser
    \/ TrackerAPIViewPostAnyIds

SpecIngestIds == Init /\ [][NextIngestIds]_vars

SegmentsOf(log) ==
    {i \in 1 .. Len(time_segments) : time_segments[i].activity_log = Some(log)}

(* The log has one segment, of its start, end, duration and status. *)
PairedWithItsSegment(log) ==
    /\ Cardinality(SegmentsOf(log)) = 1
    /\ \A i \in SegmentsOf(log) :
        /\ time_segments[i].start_time = activity_logs[log].start_timestamp
        /\ time_segments[i].end_time = activity_logs[log].end_timestamp
        /\ time_segments[i].duration = activity_logs[log].duration
        /\ time_segments[i].segment_type = activity_logs[log].productivity_status

IdleSegmentsUnlinked ==
    \A i \in 1 .. Len(time_segments) :
        time_segments[i].segment_type = "idle" <=> IsNone(time_segments[i].activity_log)

BatchIdsDistinct ==
    \A i, j \in 1 .. BatchSize : Posted.body.allWindows[i].id = Posted.body.allWindows[j].id => i = j

====
